---------------------------- MODULE Spec2Model ----------------------------
(***************************************************************************)
(* Model of the competitive-watch scraper (Yoan-ai-ui/Scrapler).           *)
(*                                                                         *)
(*   Spec       BaseScraper._make_request: the retrying HTTP fetch         *)
(*   FairSpec   the same machine with the fairness of sequential code      *)
(*   BatchSpec  CompetitiveScraper.scrape_products over a list of URLs,    *)
(*              with BaseScraper.get_product_data and the site adapters    *)
(*   DiffSpec   ReportGenerator.generate_comparison_report applied to two  *)
(*              snapshots of up to MaxCurrent / MaxPrevious rows           *)
(*   ThresholdSpec  the same function applied to one URL present in both   *)
(*              snapshots, over prices around the 5% threshold             *)
(*   HistorySpec  the same function applied to a previous snapshot with    *)
(*              several dated records of the URL of the current record     *)
(*   CascadeSpec  BaseScraper._extract_text over a list of selectors       *)
(*   ClassifySpec  the availability that each site adapter's               *)
(*              scrape_product stores, over page texts and controls        *)
(*   PriceSpec  BaseScraper._clean_price over price texts, and the price   *)
(*              loops of the Amazon and Etsy adapters                      *)
(*   DescriptionSpec  the description each site adapter stores             *)
(*   RatingSpec  BaseScraper._extract_rating and the review extractors of  *)
(*              the Amazon, Etsy and Fiverr adapters                       *)
(*   RunSpec    CompetitiveScraper.run_single_scraping, run after run:     *)
(*              the reports, the historical snapshots, the comparison and  *)
(*              the alerts                                                 *)
(*                                                                         *)
(* Each specification drives its own group of variables and leaves the     *)
(* other groups at their idle values.                                      *)
(***************************************************************************)
EXTENDS Integers, Sequences, FiniteSets, TLC

VARIABLES
    \* --- BaseScraper._make_request (one call) ---
    pc,          \* position in the call: idle, for, sleep, get, done, raised
    mrArg,       \* the max_retries argument as passed by the caller
    max_retries, \* the local max_retries after line 38
    attempt,     \* the loop variable of `for attempt in range(max_retries)`
    statuses,    \* outcome of every session.get of this call, in order
    sinceGet,    \* durations of the time.sleep calls made since the last session.get
    result,      \* the returned value
    \* --- CompetitiveScraper.scrape_products (one call) ---
    bpc,           \* position in the call: idle, loop, done
    urls_data,     \* the argument: entries {url, site}
    world,         \* what the outside does for each entry (page served, failure met)
    i,             \* number of entries of urls_data the loop has gone through
    scraped_data,  \* the list being built, returned at the end
    producedBy,    \* for each record of scraped_data, the index of its entry in urls_data
    success_count, \* the counter of successful records
    \* --- ReportGenerator.generate_comparison_report (one call) ---
    dpc,             \* position in the call: idle, called, done
    current_data,    \* the argument current_data: a list of rows (dicts)
    historical_data, \* the argument historical_data
    report,          \* the returned dict
    \* --- extraction from one parsed page ---
    epc,             \* position: idle, extract (_extract_text called),
                     \* scrape (a scrape_product at its availability), done
    adapter,         \* the site adapter at work
    document,        \* the parsed page (soup)
    extracted,       \* what _extract_text returned
    product_availability, \* the 'availability' stored by scrape_product
    \* --- one call of a normalizer ---
    npc,             \* position in the call: idle, called, done
    callee,          \* the function called
    argument,        \* its argument
    returned,        \* what it returned
    \* --- CompetitiveScraper.run_single_scraping, run after run ---
    rpc,               \* position: idle, scraped, reported, checked
    run,               \* the number of runs started; the clock reading of the run
    run_data,          \* scraped_data of the run
    reports_dir,       \* the CSV reports written, by clock reading
    data_dir,          \* the files historical_data_<clock>.csv, by clock reading
    reports_generated, \* what generate_reports returned
    compared_file,     \* the file handed to the comparison in this run, 0 if none
    comparison_report, \* the comparison report of the run
    alerts             \* the calls made to the notifier in this run

fetchVars == <<pc, mrArg, max_retries, attempt, statuses, sinceGet, result>>
batchVars == <<bpc, urls_data, world, i, scraped_data, producedBy, success_count>>

diffVars == <<dpc, current_data, historical_data, report>>

extractVars == <<epc, adapter, document, extracted, product_availability>>

callVars == <<npc, callee, argument, returned>>

runVars == <<rpc, run, run_data, reports_dir, data_dir, reports_generated,
             compared_file, comparison_report, alerts>>

vars == <<fetchVars, batchVars, diffVars, extractVars, callVars, runVars>>

\* What the actions of each component leave alone.
notFetch == <<batchVars, diffVars, extractVars, callVars, runVars>>
notBatch == <<fetchVars, diffVars, extractVars, callVars, runVars>>
notDiff == <<fetchVars, batchVars, extractVars, callVars, runVars>>
notExtract == <<fetchVars, batchVars, diffVars, callVars, runVars>>
notCall == <<fetchVars, batchVars, diffVars, extractVars, runVars>>
notRun == <<fetchVars, batchVars, diffVars, extractVars, callVars>>

-----------------------------------------------------------------------------
(* Bounds of the model *)

\* Largest max_retries a caller passes explicitly.
MaxRetriesArg == 3

\* Longest URL list handed to scrape_products.
MaxUrls == 2

\* Most rows in the current and in the previous snapshot handed to the diff.
MaxCurrent == 2
MaxPrevious == 2

\* Longest selector list handed to _extract_text.
MaxSelectors == 3

\* Longest price text taken from the price alphabet, and most price elements
\* on a page.
MaxPriceLen == 4
MaxPriceElements == 2
\* Items of a bullet list, and description selectors tried on a page.
MaxBullets == 6
MaxDescSelectors == 2
\* Candidate elements of a page for the rating, and for the review count.
MaxRatingElements == 2
MaxReviewElements == 1
\* Scraping runs of one process.
MaxRuns == 3

-----------------------------------------------------------------------------
(* Program constants *)

MAX_RETRIES == 3
DELAY_BETWEEN_REQUESTS == 2
JITTER_MIN == 1
JITTER_MAX == 3
BLOCK_WAIT_MIN == 5
BLOCK_WAIT_MAX == 10
\* Config.PRICE_CHANGE_THRESHOLD = 5.0
PRICE_CHANGE_THRESHOLD == 5

-----------------------------------------------------------------------------
(* Values *)

\* Python's None.
None == [none |-> TRUE]

\* The max_retries parameter: omitted (default None) or an explicit integer.
Omitted == [given |-> FALSE, n |-> 0]
Explicit(n) == [given |-> TRUE, n |-> n]
RetryArgs == {Omitted} \cup {Explicit(n) : n \in 0..MaxRetriesArg}

\* What one session.get does: it returns a response with a status code, or
\* raises an exception of the HTTP client.
Status(c) == [exc |-> "", status_code |-> c]
Raises(e) == [exc |-> e, status_code |-> 0]
StatusCodes == {200, 204, 403, 429, 500}
ClientExceptions == {"ConnectionError", "Timeout"}
Outcomes == {Status(c) : c \in StatusCodes} \cup {Raises(e) : e \in ClientExceptions}

\* The response object returned by the k-th session.get of a call.
Response(k) == [attempt |-> k, status_code |-> 200]

\* random.uniform(lo, hi), sampled on whole time units.
Uniform(lo, hi) == lo..hi

-----------------------------------------------------------------------------
(* BaseScraper._make_request, src/scrapers/base_scraper.py:27-69 *)

\* Mutant: the budget is one attempt short.
EffectiveRetries_OneShort(arg) ==
    IF arg.given /\ arg.n # 0 THEN arg.n - 1 ELSE MAX_RETRIES - 1

\* `max_retries or self.config.MAX_RETRIES`: None and 0 are both falsy.
EffectiveRetries(arg) ==
    IF arg.given /\ arg.n # 0 THEN arg.n ELSE MAX_RETRIES

\* Mutant: the handler catches the timeout exception only.
IsRequestException_TimeoutOnly(e) == e = "Timeout"

\* `except requests.exceptions.RequestException`: the client's network and
\* timeout exceptions are subclasses of RequestException.
IsRequestException(e) == e \in {"ConnectionError", "Timeout"}

\* Mutant: only 429 counts as a block.
IsBlocked_Only429(c) == c = 429

\* `response.status_code in [403, 429]`
IsBlocked(c) == c \in {403, 429}

\* Mutant: the loop runs one iteration too many.
RangeHasNext_Inclusive(a, n) == a <= n

\* `for attempt in range(n)`: whether the loop has an iteration for index a.
RangeHasNext(a, n) == a < n

FetchIdle ==
    /\ pc = "idle"
    /\ mrArg = Omitted
    /\ max_retries = 0
    /\ attempt = 0
    /\ statuses = <<>>
    /\ sinceGet = <<>>
    /\ result = None

\* Entry of the call, line 38.
MakeRequest(arg) ==
    /\ pc = "idle"
    /\ mrArg' = arg
    /\ max_retries' = EffectiveRetries(arg)
    /\ attempt' = 0
    /\ statuses' = <<>>
    /\ sinceGet' = <<>>
    /\ result' = None
    /\ pc' = "for"
    /\ UNCHANGED notFetch

\* `for attempt in range(max_retries)`, line 40; lines 68-69 after the loop.
ForNext ==
    /\ pc = "for"
    /\ IF RangeHasNext(attempt, max_retries)
         THEN /\ pc' = "sleep"
              /\ UNCHANGED result
         ELSE /\ pc' = "done"
              /\ result' = None
    /\ UNCHANGED <<mrArg, max_retries, attempt, statuses, sinceGet>>
    /\ UNCHANGED notFetch

\* Lines 43-45: the delay before every attempt but the first.
RetryDelay ==
    /\ pc = "sleep"
    /\ IF attempt > 0
         THEN \E j \in Uniform(JITTER_MIN, JITTER_MAX) :
                  sinceGet' = Append(sinceGet, DELAY_BETWEEN_REQUESTS + j)
         ELSE UNCHANGED sinceGet
    /\ pc' = "get"
    /\ UNCHANGED <<mrArg, max_retries, attempt, statuses, result>>
    /\ UNCHANGED notFetch

\* Lines 47-66: one session.get and the handling of what it gives.
Get(o) ==
    /\ pc = "get"
    /\ statuses' = Append(statuses, o)
    /\ IF o.exc # ""
         THEN IF IsRequestException(o.exc)
                THEN /\ sinceGet' = <<>>
                     /\ attempt' = attempt + 1
                     /\ pc' = "for"
                     /\ UNCHANGED result
                ELSE /\ sinceGet' = <<>>
                     /\ pc' = "raised"
                     /\ UNCHANGED <<attempt, result>>
         ELSE IF o.status_code = 200
                THEN /\ result' = Response(attempt + 1)
                     /\ sinceGet' = <<>>
                     /\ pc' = "done"
                     /\ UNCHANGED attempt
                ELSE IF IsBlocked(o.status_code)
                       THEN /\ \E w \in Uniform(BLOCK_WAIT_MIN, BLOCK_WAIT_MAX) :
                                   sinceGet' = <<w>>
                            /\ attempt' = attempt + 1
                            /\ pc' = "for"
                            /\ UNCHANGED result
                       ELSE /\ sinceGet' = <<>>
                            /\ attempt' = attempt + 1
                            /\ pc' = "for"
                            /\ UNCHANGED result
    /\ UNCHANGED <<mrArg, max_retries>>
    /\ UNCHANGED notFetch

-----------------------------------------------------------------------------
(* Python strings, as sequences of one-character strings *)

\* str.lower(), on the letters the texts of the model use.
LowerTable ==
       ("A" :> "a") @@ ("B" :> "b") @@ ("C" :> "c") @@ ("D" :> "d") @@ ("E" :> "e") @@ ("F" :> "f")
    @@ ("G" :> "g") @@ ("H" :> "h") @@ ("I" :> "i") @@ ("J" :> "j") @@ ("K" :> "k") @@ ("L" :> "l")
    @@ ("M" :> "m") @@ ("N" :> "n") @@ ("O" :> "o") @@ ("P" :> "p") @@ ("Q" :> "q") @@ ("R" :> "r")
    @@ ("S" :> "s") @@ ("T" :> "t") @@ ("U" :> "u") @@ ("V" :> "v") @@ ("W" :> "w") @@ ("X" :> "x")
    @@ ("Y" :> "y") @@ ("Z" :> "z") @@ ("É" :> "é")
LowerChar(c) == IF c \in DOMAIN LowerTable THEN LowerTable[c] ELSE c
Lower(text) == [k \in 1..Len(text) |-> LowerChar(text[k])]

\* `word in text`
Contains(text, word) ==
    \E k \in 0..(Len(text) - Len(word)) : SubSeq(text, k + 1, k + Len(word)) = word

\* any(keyword in text for keyword in keywords)
ContainsAny(text, keywords) == \E word \in keywords : Contains(text, word)

\* any(char.isdigit() for char in text)
Digits == {"0", "1", "2", "3", "4", "5", "6", "7", "8", "9"}
HasDigit(text) == \E k \in 1..Len(text) : text[k] \in Digits

\* str.strip(), as get_text(strip=True) applies it to the text of an element.
Whitespace == {" ", "\t", "\n"}
RECURSIVE StripLeft(_)
StripLeft(text) ==
    IF text # <<>> /\ Head(text) \in Whitespace THEN StripLeft(Tail(text)) ELSE text
RECURSIVE StripRight(_)
StripRight(text) ==
    IF text # <<>> /\ text[Len(text)] \in Whitespace
      THEN StripRight(SubSeq(text, 1, Len(text) - 1))
      ELSE text
Strip(text) == StripRight(StripLeft(text))

-----------------------------------------------------------------------------
(* Values of the batch *)

\* A number where Python may also hold None.
Num(n) == [none |-> FALSE, v |-> n]

\* FileLoader._detect_site, src/utils/file_loader.py:69-87, on the URLs used.
BatchUrls == {"https://www.amazon.fr/dp/1", "https://shop.myshopify.com/p/1",
              "https://example.org/p/1"}
DetectSite(url) ==
    CASE url = "https://www.amazon.fr/dp/1" -> "amazon"
      [] url = "https://shop.myshopify.com/p/1" -> "shopify"
      [] OTHER -> "unknown"
UrlEntry(url) == [url |-> url, site |-> DetectSite(url)]

\* ScraperFactory.SCRAPERS, src/scrapers/scraper_factory.py:14-21.
SupportedSites == {"shopify", "amazon", "etsy", "leboncoin", "beacon", "fiverr"}

\* What the outside does while one entry is processed:
\*   ok              the page is served, parsed and extracted
\*   ctor_raises     the adapter's constructor raises (UserAgent())
\*   fetch_none      _make_request exhausts its attempts and returns None
\*   parse_none      _parse_html returns None
\*   bot_check       the page is served with status 200 and holds a bot-check phrase
\*   extract_raises  a library call raises during the extraction
Scenarios == {"ok", "ctor_raises", "fetch_none", "parse_none", "bot_check",
              "extract_raises"}

\* str(e) of an exception raised by a library call.
LibraryError == "library error"

\* The fields an adapter extracts from a product page and from a bot-check page.
ProductFields ==
    [title |-> "Produit", price |-> 1999, availability |-> "En stock",
     rating |-> Num(45), review_count |-> Num(12), description |-> "Description"]
BlockPageFields ==
    [title |-> "Robot Check", price |-> 0, availability |-> "Disponibilité inconnue",
     rating |-> None, review_count |-> None, description |-> ""]

\* soup.get_text() of the page served in each scenario: a product page, or the
\* page Amazon serves instead of it with status 200.
ProductPageText == <<"P", "r", "o", "d", "u", "i", "t", " ", "1", "9", ",", "9", "9", " ", "€", " ", "E", "n", " ", "s", "t", "o", "c", "k">>
BotCheckPageText == <<"A", "m", "a", "z", "o", "n", ".", "f", "r", " ", "R", "O", "B", "O", "T", " ", "C", "H", "E", "C", "K", " ", "S", "a", "i", "s", "i", "s", "s", "e", "z", " ", "l", "e", "s", " ", "c", "a", "r", "a", "c", "t", "è", "r", "e", "s">>
PageText(sc) == IF sc = "bot_check" THEN BotCheckPageText ELSE ProductPageText

-----------------------------------------------------------------------------
(* AmazonScraper._is_blocked, src/scrapers/amazon_scraper.py:67-77 *)

blocked_indicators ==
    {<<"a", "p", "i", "-", "s", "e", "r", "v", "i", "c", "e", "s", "-", "s", "u", "p", "p", "o", "r", "t", "@", "a", "m", "a", "z", "o", "n", ".", "c", "o", "m">>,
     <<"R", "o", "b", "o", "t", " ", "C", "h", "e", "c", "k">>,
     <<"E", "n", "t", "e", "r", " ", "t", "h", "e", " ", "c", "h", "a", "r", "a", "c", "t", "e", "r", "s", " ", "y", "o", "u", " ", "s", "e", "e", " ", "b", "e", "l", "o", "w">>,
     <<"S", "o", "r", "r", "y", ",", " ", "w", "e", " ", "j", "u", "s", "t", " ", "n", "e", "e", "d", " ", "t", "o", " ", "m", "a", "k", "e", " ", "s", "u", "r", "e", " ", "y", "o", "u", "'", "r", "e", " ", "n", "o", "t", " ", "a", " ", "r", "o", "b", "o", "t">>}

\* Mutant: the phrases are looked up in the text as it is served.
is_blocked_CaseSensitive(page_text) == ContainsAny(page_text, blocked_indicators)

is_blocked(page_text) ==
    ContainsAny(Lower(page_text), {Lower(indicator) : indicator \in blocked_indicators})

-----------------------------------------------------------------------------
(* The site adapters' scrape_product, src/scrapers/*_scraper.py *)

\* The suffix of the adapters' messages: "... la page Amazon", "... le HTML Etsy".
SiteSuffix(site) ==
    CASE site = "amazon" -> " Amazon"
      [] site = "etsy" -> " Etsy"
      [] site = "leboncoin" -> " Leboncoin"
      [] site = "beacon" -> " Beacon"
      [] site = "fiverr" -> " Fiverr"
      [] OTHER -> ""

Returned(fields) == [raised |-> FALSE, message |-> "", fields |-> fields]
Raised(msg) == [raised |-> TRUE, message |-> msg, fields |-> <<>>]

\* scrape_product of the adapter of `site`: fetch, parse, (Amazon) block
\* detection, extraction.  E.g. amazon_scraper.py:27-65, shopify_scraper.py:10-47.
ScrapeProduct(site, sc) ==
    IF sc = "fetch_none"
      THEN Raised("Impossible de récupérer la page" \o SiteSuffix(site))
    ELSE IF sc = "parse_none"
      THEN Raised("Impossible de parser le HTML" \o SiteSuffix(site))
    ELSE IF site = "amazon" /\ is_blocked(PageText(sc))
      THEN Raised("Requête bloquée par Amazon")
    ELSE IF sc = "extract_raises"
      THEN Raised(LibraryError)
    ELSE IF sc = "bot_check"
      THEN Returned(BlockPageFields)
    ELSE Returned(ProductFields)

-----------------------------------------------------------------------------
(* BaseScraper.get_product_data, src/scrapers/base_scraper.py:206-255 *)

\* dict.update: the keys of `d` overwritten or extended by those of `u`.
Update(d, u) ==
    [k \in DOMAIN d \cup DOMAIN u |-> IF k \in DOMAIN u THEN u[k] ELSE d[k]]

\* Lines 222-241: the record before the adapter is called (scraped_at and
\* scraping_duration, which hold clock readings, are left out).
BaseProductData(entry) ==
    [url |-> entry.url, title |-> "", price |-> 0, availability |-> "",
     rating |-> None, review_count |-> None, description |-> "",
     success |-> FALSE, error_message |-> "", site |-> entry.site]

\* Mutant: success is set before the adapter is called.
GetProductData_SuccessFirst(entry, sc) ==
    LET r == ScrapeProduct(entry.site, sc)
        product_data == Update(BaseProductData(entry), [success |-> TRUE])
    IN  IF r.raised
          THEN Update(product_data, [error_message |-> r.message])
          ELSE Update(product_data, r.fields)

\* Lines 243-255.
GetProductData(entry, sc) ==
    LET r == ScrapeProduct(entry.site, sc)
        product_data == BaseProductData(entry)
    IN  IF r.raised
          THEN Update(product_data, [error_message |-> r.message])
          ELSE Update(Update(product_data, r.fields), [success |-> TRUE])

-----------------------------------------------------------------------------
(* CompetitiveScraper.scrape_products, src/main.py:126-180 *)

\* ScraperFactory.get_scraper, src/scrapers/scraper_factory.py:23-40: the
\* adapter class of the site, or None; the constructor may raise.
GetScraper(site, sc) ==
    IF site \notin SupportedSites THEN [raised |-> FALSE, scraper |-> "None"]
    ELSE IF sc = "ctor_raises" THEN [raised |-> TRUE, scraper |-> "None"]
    ELSE [raised |-> FALSE, scraper |-> site]

\* Mutant: the handler logs the error and appends nothing.
ErrorRecord_Dropped(data, entry, msg) == data

\* Lines 166-173: the record appended by the loop's exception handler.
ErrorRecord(data, entry, msg) ==
    Append(data, [url |-> entry.url, success |-> FALSE, error_message |-> msg])

BatchIdle ==
    /\ bpc = "idle"
    /\ urls_data = <<>>
    /\ world = <<>>
    /\ i = 0
    /\ scraped_data = <<>>
    /\ producedBy = <<>>
    /\ success_count = 0

SeqsUpTo(S, n) == UNION {[1..k -> S] : k \in 0..n}

\* The call: a list of entries, and for each what the outside will do.
BatchInit ==
    /\ bpc = "loop"
    /\ urls_data \in SeqsUpTo({UrlEntry(u) : u \in BatchUrls}, MaxUrls)
    /\ world \in [1..Len(urls_data) -> Scenarios]
    /\ i = 0
    /\ scraped_data = <<>>
    /\ producedBy = <<>>
    /\ success_count = 0

\* One iteration of the loop, lines 141-173 (the pause of lines 163-164
\* changes no state).
ScrapeOne ==
    /\ bpc = "loop"
    /\ i < Len(urls_data)
    /\ LET url_data == urls_data[i + 1]
           g == GetScraper(url_data.site, world[i + 1])
       IN  IF g.raised
             THEN /\ scraped_data' = ErrorRecord(scraped_data, url_data, LibraryError)
                  /\ producedBy' =
                        IF Len(scraped_data') > Len(scraped_data)
                          THEN Append(producedBy, i + 1) ELSE producedBy
                  /\ UNCHANGED success_count
           ELSE IF g.scraper = "None"
             THEN UNCHANGED <<scraped_data, producedBy, success_count>>
           ELSE LET product_data == GetProductData(url_data, world[i + 1])
                IN  /\ scraped_data' = Append(scraped_data, product_data)
                    /\ producedBy' = Append(producedBy, i + 1)
                    /\ success_count' =
                          IF product_data.success THEN success_count + 1
                                                  ELSE success_count
    /\ i' = i + 1
    /\ UNCHANGED <<bpc, urls_data, world>>
    /\ UNCHANGED notBatch

\* Lines 175-180: the loop is over, the list is returned.
ReturnScraped ==
    /\ bpc = "loop"
    /\ i = Len(urls_data)
    /\ bpc' = "done"
    /\ UNCHANGED <<urls_data, world, i, scraped_data, producedBy, success_count>>
    /\ UNCHANGED notBatch

BatchNext == ScrapeOne \/ ReturnScraped

-----------------------------------------------------------------------------
(* Python float arithmetic (IEEE-754 binary64, round to nearest even), as     *)
(* used by the price comparison of generate_comparison_report.  Exact         *)
(* naturals are little-endian sequences of limbs below LimbBase, the highest  *)
(* limb non-zero.                                                             *)

LimbBits == 24
LimbBase == 2^LimbBits

RECURSIVE Trim(_)
Trim(a) == IF a # <<>> /\ a[Len(a)] = 0 THEN Trim(SubSeq(a, 1, Len(a) - 1)) ELSE a

BFromInt(n) == Trim(<<n % LimbBase, n \div LimbBase>>)

BToInt(a) == (IF Len(a) >= 1 THEN a[1] ELSE 0) + (IF Len(a) >= 2 THEN a[2] * LimbBase ELSE 0)

Limb(a, k) == IF k <= Len(a) THEN a[k] ELSE 0

RECURSIVE BAddFrom(_, _, _, _)
BAddFrom(a, b, k, carry) ==
    IF k > Len(a) /\ k > Len(b)
      THEN IF carry = 0 THEN <<>> ELSE <<carry>>
      ELSE LET t == Limb(a, k) + Limb(b, k) + carry
           IN  <<t % LimbBase>> \o BAddFrom(a, b, k + 1, t \div LimbBase)
BAdd(a, b) == BAddFrom(a, b, 1, 0)

\* a - b for a >= b
RECURSIVE BSubFrom(_, _, _, _)
BSubFrom(a, b, k, borrow) ==
    IF k > Len(a) THEN <<>>
      ELSE LET t == Limb(a, k) - Limb(b, k) - borrow
           IN  IF t < 0 THEN <<t + LimbBase>> \o BSubFrom(a, b, k + 1, 1)
                        ELSE <<t>> \o BSubFrom(a, b, k + 1, 0)
BSub(a, b) == Trim(BSubFrom(a, b, 1, 0))

\* -1, 0, 1 as a < b, a = b, a > b
RECURSIVE BCmpFrom(_, _, _)
BCmpFrom(a, b, k) ==
    IF k = 0 THEN 0
    ELSE IF a[k] < b[k] THEN -1
    ELSE IF a[k] > b[k] THEN 1
    ELSE BCmpFrom(a, b, k - 1)
BCmp(a, b) ==
    IF Len(a) < Len(b) THEN -1
    ELSE IF Len(a) > Len(b) THEN 1
    ELSE BCmpFrom(a, b, Len(a))

\* a * m for a small m (m * LimbBase fits the machine integer)
RECURSIVE BMulSmallFrom(_, _, _, _)
BMulSmallFrom(a, m, k, carry) ==
    IF k > Len(a)
      THEN IF carry = 0 THEN <<>> ELSE <<carry>>
      ELSE LET t == a[k] * m + carry
           IN  <<t % LimbBase>> \o BMulSmallFrom(a, m, k + 1, t \div LimbBase)
BMulSmall(a, m) == Trim(BMulSmallFrom(a, m, 1, 0))

\* quotient and remainder of a by a small d (d * LimbBase fits the machine integer)
RECURSIVE BDivSmallFrom(_, _, _, _)
BDivSmallFrom(a, d, k, rem) ==
    IF k = 0 THEN [q |-> <<>>, r |-> rem]
      ELSE LET t == (rem * LimbBase) + a[k]
               rest == BDivSmallFrom(a, d, k - 1, t % d)
           IN  [q |-> Append(rest.q, t \div d), r |-> rest.r]
BDivSmall(a, d) ==
    LET x == BDivSmallFrom(a, d, Len(a), 0) IN [q |-> Trim(x.q), r |-> x.r]

\* a * 2^n
BShlBits(a, s) ==
    IF s = 0 THEN a
    ELSE Trim([k \in 1..(Len(a) + 1) |->
                 ((Limb(a, k) % (2^(LimbBits - s))) * (2^s))
                 + (IF k > 1 THEN a[k - 1] \div (2^(LimbBits - s)) ELSE 0)])
BShl(a, n) ==
    IF a = <<>> THEN <<>>
    ELSE [k \in 1..(n \div LimbBits) |-> 0] \o BShlBits(a, n % LimbBits)

\* floor(a / 2^n)
BShr(a, n) ==
    LET w == n \div LimbBits
        s == n % LimbBits
    IN  IF w >= Len(a) THEN <<>>
        ELSE Trim([k \in 1..(Len(a) - w) |->
                     (Limb(a, k + w) \div (2^s))
                     + ((Limb(a, k + w + 1) % (2^s)) * (2^(LimbBits - s)))])

RECURSIVE IntBitLen(_)
IntBitLen(n) == IF n = 0 THEN 0 ELSE 1 + IntBitLen(n \div 2)
BBitLen(a) == IF a = <<>> THEN 0 ELSE (Len(a) - 1) * LimbBits + IntBitLen(a[Len(a)])

BBit(a, j) == (Limb(a, (j \div LimbBits) + 1) \div (2^(j % LimbBits))) % 2

\* Quotient and remainder of a by b # 0, bit by bit from the top: s holds the
\* quotient and remainder of the bits above bit s.j.  The steps are taken
\* eight at a time to keep the recursion shallow.
BDivStep(a, b, s) ==
    IF s.j < 0 THEN s
    ELSE LET r2 == BAdd(BShl(s.r, 1), IF BBit(a, s.j) = 1 THEN <<1>> ELSE <<>>)
         IN  IF BCmp(r2, b) >= 0
               THEN [q |-> BAdd(BShl(s.q, 1), <<1>>), r |-> BSub(r2, b), j |-> s.j - 1]
               ELSE [q |-> BShl(s.q, 1), r |-> r2, j |-> s.j - 1]
BDivStep4(a, b, s) == BDivStep(a, b, BDivStep(a, b, BDivStep(a, b, BDivStep(a, b, s))))
RECURSIVE BDivLoop(_, _, _)
BDivLoop(a, b, s) ==
    IF s.j < 0 THEN s ELSE BDivLoop(a, b, BDivStep4(a, b, BDivStep4(a, b, s)))
BDivMod(a, b) == BDivLoop(a, b, [q |-> <<>>, r |-> <<>>, j |-> BBitLen(a) - 1])

\* n / 2^k rounded to the nearest integer, ties to even
BShrRound(n, k) ==
    IF k = 0 THEN n
    ELSE LET q == BShr(n, k)
             r == BSub(n, BShl(q, k))
             c == BCmp(r, BShl(<<1>>, k - 1))
         IN  IF c > 0 \/ (c = 0 /\ BBit(q, 0) = 1) THEN BAdd(q, <<1>>) ELSE q

\* A float: (-1)^neg * m * 2^e with m of exactly 53 bits, or m = 0.
FZero == [neg |-> FALSE, m |-> <<>>, e |-> 0]

\* The float nearest to n * 2^e (n an exact natural), with the sign given.
FRound(neg, n, e) ==
    LET len == BBitLen(n)
    IN  IF len = 0 THEN FZero
        ELSE IF len <= 53 THEN [neg |-> neg, m |-> BShl(n, 53 - len), e |-> e - (53 - len)]
        ELSE LET q == BShrRound(n, len - 53)
             IN  IF BBitLen(q) = 54
                   THEN [neg |-> neg, m |-> BShr(q, 1), e |-> e + (len - 53) + 1]
                   ELSE [neg |-> neg, m |-> q, e |-> e + (len - 53)]

\* float("<c / 100 written with two decimals>") for a natural c: the float
\* nearest to c/100.
FFromCents(c) ==
    LET d == BDivSmall(BShl(BFromInt(c), 62), 100)
        sticky == IF d.r = 0 THEN <<>> ELSE <<1>>
    IN  FRound(FALSE, BAdd(BShl(d.q, 1), sticky), -63)

\* x - y for floats x, y >= 0
FSub(x, y) ==
    LET e0 == IF x.e < y.e THEN x.e ELSE y.e
        a == BShl(x.m, x.e - e0)
        b == BShl(y.m, y.e - e0)
    IN  IF BCmp(a, b) >= 0 THEN FRound(FALSE, BSub(a, b), e0)
                           ELSE FRound(TRUE, BSub(b, a), e0)

\* x / y for a float y > 0
FDiv(x, y) ==
    IF x.m = <<>> THEN FZero
    ELSE LET d == BDivMod(BShl(x.m, 56), y.m)
             sticky == IF d.r = <<>> THEN <<>> ELSE <<1>>
         IN  FRound(x.neg, BAdd(BShl(d.q, 1), sticky), x.e - y.e - 57)

\* x * k for a small natural k
FMulSmall(x, k) == FRound(x.neg, BMulSmall(x.m, k), x.e)

\* abs(x) >= k for a natural k
FAbsGe(x, k) ==
    IF x.e < 0 THEN BCmp(x.m, BShl(BFromInt(k), -x.e)) >= 0
               ELSE BCmp(BShl(x.m, x.e), BFromInt(k)) >= 0

\* round(x, 2), given in hundredths: the decimal with two places nearest to
\* the exact value of x, ties to even.
FRound2(x) ==
    LET n == BMulSmall(x.m, 100)
        q == IF x.e < 0 THEN BShrRound(n, -x.e) ELSE BShl(n, x.e)
    IN  IF x.neg THEN -BToInt(q) ELSE BToInt(q)

-----------------------------------------------------------------------------
(* Values of the diff *)

\* A cell of a row: a value, or NaN (what pandas holds for a missing value).
\* Prices are in hundredths (the float written with two decimals).
NaN == [nan |-> TRUE]
Val(x) == [nan |-> FALSE, v |-> x]

\* `x > 0` and `a != b` on cells: every comparison with NaN is False, and
\* NaN differs from everything, itself included.
GreaterThanZero(c) == ~c.nan /\ c.v > 0

NotEqual(a, b) == a.nan \/ b.nan \/ a.v # b.v

\* pd.DataFrame(data).columns: the union of the rows' keys.
Columns(data) == UNION {DOMAIN data[k] : k \in 1..Len(data)}

\* row.get(key, default) on a row of pd.DataFrame(data): the row's cell, NaN
\* when only other rows have the key, the default when the frame has no such
\* column.
RowGet(data, row, key, default) ==
    IF key \in DOMAIN row THEN row[key]
    ELSE IF key \in Columns(data) THEN NaN
    ELSE Val(default)

\* set(df['url'])
UrlSet(data) == {data[k].url : k \in 1..Len(data)}

Positions(data, url) == {k \in 1..Len(data) : data[k].url = url}

\* df[df['url'] == url].iloc[0] and .iloc[-1]
Iloc0(data, url) ==
    data[CHOOSE k \in Positions(data, url) : \A j \in Positions(data, url) : k <= j]
IlocLast(data, url) ==
    data[CHOOSE k \in Positions(data, url) : \A j \in Positions(data, url) : j <= k]

\* Mutant: the loop goes through the URLs twice.
Orders_Twice(S) ==
    {o \o o : o \in {p \in [1..Cardinality(S) -> S] :
                        \A j, k \in 1..Cardinality(S) : p[j] = p[k] => j = k}}

\* The orders in which `for url in <set>` may go through a set.
Orders(S) ==
    {o \in [1..Cardinality(S) -> S] : \A j, k \in 1..Cardinality(S) : o[j] = o[k] => j = k}

-----------------------------------------------------------------------------
(* ReportGenerator.generate_comparison_report,                               *)
(* src/reports/report_generator.py:108-201                                   *)

\* Line 149: ((current_price - historical_price) / historical_price) * 100
PriceChangePct(historical_price, current_price) ==
    LET h == FFromCents(historical_price)
        c == FFromCents(current_price)
    IN  FMulSmall(FDiv(FSub(c, h), h), 100)

\* Lines 144-158: the price-change records of one common URL (one or none).
PriceChangeOf(cur, hist, url) ==
    LET current_product == Iloc0(cur, url)
        historical_product == IlocLast(hist, url)
        current_price == RowGet(cur, current_product, "price", 0)
        historical_price == RowGet(hist, historical_product, "price", 0)
    IN  IF GreaterThanZero(current_price) /\ GreaterThanZero(historical_price)
          THEN LET price_change_pct == PriceChangePct(historical_price.v, current_price.v)
               IN  IF FAbsGe(price_change_pct, PRICE_CHANGE_THRESHOLD)
                     THEN <<[url |-> url,
                             title |-> RowGet(cur, current_product, "title", ""),
                             old_price |-> historical_price.v,
                             new_price |-> current_price.v,
                             change_percent |-> FRound2(price_change_pct)]>>
                     ELSE <<>>
          ELSE <<>>

\* Mutant: a common URL without two positive prices is skipped altogether.
AvailabilityChangeOf_OnlyWithPrice(cur, hist, url) ==
    IF PriceChangeOf(cur, hist, url) = <<>> THEN <<>>
    ELSE <<[url |-> url,
            title |-> RowGet(cur, Iloc0(cur, url), "title", ""),
            old_availability |-> RowGet(hist, IlocLast(hist, url), "availability", ""),
            new_availability |-> RowGet(cur, Iloc0(cur, url), "availability", "")]>>

\* Lines 160-170: the availability-change records of one common URL.
AvailabilityChangeOf(cur, hist, url) ==
    LET current_product == Iloc0(cur, url)
        historical_product == IlocLast(hist, url)
        current_availability == RowGet(cur, current_product, "availability", "")
        historical_availability == RowGet(hist, historical_product, "availability", "")
    IN  IF NotEqual(current_availability, historical_availability)
          THEN <<[url |-> url,
                  title |-> RowGet(cur, current_product, "title", ""),
                  old_availability |-> historical_availability,
                  new_availability |-> current_availability]>>
          ELSE <<>>

\* Lines 140-170, for the URLs of common_urls in the order the loop meets them.
RECURSIVE PriceChanges(_, _, _)
PriceChanges(cur, hist, order) ==
    IF order = <<>> THEN <<>>
    ELSE PriceChangeOf(cur, hist, Head(order)) \o PriceChanges(cur, hist, Tail(order))

RECURSIVE AvailabilityChanges(_, _, _)
AvailabilityChanges(cur, hist, order) ==
    IF order = <<>> THEN <<>>
    ELSE AvailabilityChangeOf(cur, hist, Head(order))
           \o AvailabilityChanges(cur, hist, Tail(order))

\* Lines 172-180.
RECURSIVE NewProducts(_, _)
NewProducts(cur, order) ==
    IF order = <<>> THEN <<>>
    ELSE LET product == Iloc0(cur, Head(order))
         IN  <<[url |-> Head(order),
                title |-> RowGet(cur, product, "title", ""),
                price |-> RowGet(cur, product, "price", 0)]>>
             \o NewProducts(cur, Tail(order))

\* Lines 182-190.
RECURSIVE RemovedProducts(_, _)
RemovedProducts(hist, order) ==
    IF order = <<>> THEN <<>>
    ELSE LET product == IlocLast(hist, Head(order))
         IN  <<[url |-> Head(order),
                title |-> RowGet(hist, product, "title", ""),
                last_price |-> RowGet(hist, product, "price", 0)]>>
             \o RemovedProducts(hist, Tail(order))

\* The empty dict {}.
EmptyDict == <<>>

\* Lines 137-138, 173, 183.
CommonUrls(cur, hist) == UrlSet(cur) \cap UrlSet(hist)
NewUrls(cur, hist) == UrlSet(cur) \ UrlSet(hist)
RemovedUrls(cur, hist) == UrlSet(hist) \ UrlSet(cur)

\* The whole function; oc, on, or are the orders in which the three loops
\* go through their sets (every row has a url, so line 126 never returns).
GenerateComparisonReport(cur, hist, oc, on, or) ==
    IF cur = <<>> \/ hist = <<>>
      THEN EmptyDict
      ELSE LET price_changes == PriceChanges(cur, hist, oc)
               availability_changes == AvailabilityChanges(cur, hist, oc)
               new_products == NewProducts(cur, on)
               removed_products == RemovedProducts(hist, or)
           IN  [price_changes |-> price_changes,
                availability_changes |-> availability_changes,
                new_products |-> new_products,
                removed_products |-> removed_products,
                summary |->
                   [total_price_changes |-> Len(price_changes),
                    total_availability_changes |-> Len(availability_changes),
                    new_products_count |-> Len(new_products),
                    removed_products_count |-> Len(removed_products)]]

DiffIdle ==
    /\ dpc = "idle"
    /\ current_data = <<>>
    /\ historical_data = <<>>
    /\ report = EmptyDict

\* No page is being read.
ExtractIdle ==
    /\ epc = "idle"
    /\ adapter = "none"
    /\ document = [availability |-> <<>>, buttons |-> <<>>, page_text |-> <<>>]
    /\ extracted = <<>>
    /\ product_availability = <<>>

\* No normalizer is being called.
CallIdle ==
    /\ npc = "idle"
    /\ callee = "none"
    /\ argument = <<>>
    /\ returned = <<>>

\* No run has started: both directories are empty.
RunIdle ==
    /\ rpc = "idle"
    /\ run = 0
    /\ run_data = <<>>
    /\ reports_dir = {}
    /\ data_dir = <<>>
    /\ reports_generated = <<>>
    /\ compared_file = 0
    /\ comparison_report = <<>>
    /\ alerts = <<>>

\* The call returns (generated_at, a clock reading, is left out).
Compare ==
    /\ dpc = "called"
    /\ \E oc \in Orders(CommonUrls(current_data, historical_data)),
          on \in Orders(NewUrls(current_data, historical_data)),
          or \in Orders(RemovedUrls(current_data, historical_data)) :
          report' = GenerateComparisonReport(current_data, historical_data, oc, on, or)
    /\ dpc' = "done"
    /\ UNCHANGED <<current_data, historical_data>>
    /\ UNCHANGED notDiff

\* Rows of the snapshots: a product in stock at 100.00, the same out of stock
\* at 94.00, a failed record as get_product_data builds it, and a failed
\* record as read back from the CSV file (empty strings come back as NaN).
DiffUrls == {"X", "Y"}
RowInStock(u) ==
    [url |-> u, title |-> Val("T"), price |-> Val(10000), availability |-> Val("En stock")]
RowOutOfStock(u) ==
    [url |-> u, title |-> Val("T"), price |-> Val(9400),
     availability |-> Val("Rupture de stock")]
RowFailed(u) ==
    [url |-> u, title |-> Val(""), price |-> Val(0), availability |-> Val("")]
RowFailedReloaded(u) ==
    [url |-> u, title |-> NaN, price |-> Val(0), availability |-> NaN]
CurrentRows == UNION {{RowInStock(u), RowOutOfStock(u), RowFailed(u)} : u \in DiffUrls}
PreviousRows ==
    UNION {{RowInStock(u), RowOutOfStock(u), RowFailedReloaded(u)} : u \in DiffUrls}

DiffInit ==
    /\ dpc = "called"
    /\ current_data \in SeqsUpTo(CurrentRows, MaxCurrent)
    /\ historical_data \in SeqsUpTo(PreviousRows, MaxPrevious)
    /\ report = EmptyDict

\* The batch alone, the fetch and the diff idle.
BatchSpecInit == FetchIdle /\ BatchInit /\ DiffIdle /\ ExtractIdle /\ CallIdle /\ RunIdle

BatchSpec == BatchSpecInit /\ [][BatchNext]_vars

DiffSpecInit == FetchIdle /\ BatchIdle /\ DiffInit /\ ExtractIdle /\ CallIdle /\ RunIdle

DiffSpec == DiffSpecInit /\ [][Compare]_vars

\* One URL present in both snapshots, its two prices around the threshold
\* (in hundredths), or missing, zero or negative.
\* Missing stands for the record that scrape_products builds when get_scraper
\* or get_product_data raises: it has neither price, title nor availability.
Missing == [missing |-> TRUE]
ThresholdPrices ==
    {NaN, Missing} \cup {Val(c) : c \in {-500, 0, 1805, 1900, 1995, 9400, 9500, 9501, 10000,
                                         10499, 10500, 10501}}
ThresholdRow(price, availability) ==
    IF price = Missing
      THEN [url |-> "X"]
      ELSE [url |-> "X", title |-> Val("T"), price |-> price,
            availability |-> Val(availability)]

ThresholdInit ==
    /\ dpc = "called"
    /\ \E old \in ThresholdPrices, new \in ThresholdPrices :
          \E a, b \in {"En stock", "Rupture de stock"} :
             /\ historical_data = <<ThresholdRow(old, a)>>
             /\ current_data = <<ThresholdRow(new, b)>>
    /\ report = EmptyDict

ThresholdSpecInit == FetchIdle /\ BatchIdle /\ ThresholdInit /\ ExtractIdle /\ CallIdle /\ RunIdle

ThresholdSpec == ThresholdSpecInit /\ [][Compare]_vars

\* A previous snapshot holding up to MaxPrevious records of X, scraped at
\* different times, in any order; the current snapshot holds one record of X.
HistoryTimes == 1..3
HistoryRow(price, t) ==
    [url |-> "X", title |-> Val("T"), price |-> Val(price),
     availability |-> Val("En stock"), scraped_at |-> t]
HistoryRows == {HistoryRow(price, t) : price \in {9400, 10000, 10500}, t \in HistoryTimes}
DistinctTimes(data) ==
    \A j, k \in 1..Len(data) : data[j].scraped_at = data[k].scraped_at => j = k

HistoryInit ==
    /\ dpc = "called"
    /\ \E price \in {9400, 10000} : current_data = <<[RowInStock("X") EXCEPT !.price = Val(price)]>>
    /\ historical_data \in {h \in SeqsUpTo(HistoryRows, MaxPrevious) :
                               h # <<>> /\ DistinctTimes(h)}
    /\ report = EmptyDict

HistorySpecInit == FetchIdle /\ BatchIdle /\ HistoryInit /\ ExtractIdle /\ CallIdle /\ RunIdle

HistorySpec == HistorySpecInit /\ [][Compare]_vars

-----------------------------------------------------------------------------
(* Documents, and BaseScraper._extract_text                                  *)

\* What soup.select_one(selector) gives for one selector of a list: no
\* element, an element with its text, or an exception.
NoMatch == [match |-> "none"]
SelectorError == [match |-> "raises"]
Element(text) == [match |-> "element", text |-> text]

\* Mutant: the first matched element decides, blank or not.
RECURSIVE ExtractText_FirstMatch(_)
ExtractText_FirstMatch(found) ==
    IF found = <<>> THEN <<>>
    ELSE IF Head(found).match = "element" THEN Strip(Head(found).text)
    ELSE ExtractText_FirstMatch(Tail(found))

\* _extract_text(soup, selectors), base_scraper.py lines 79-100; found is
\* what select_one gives for each selector of the list, in list order.
RECURSIVE ExtractText(_)
ExtractText(found) ==
    IF found = <<>> THEN <<>>
    ELSE LET o == Head(found)
         IN  IF o.match = "raises" THEN ExtractText(Tail(found))
             ELSE IF o.match = "element" /\ Strip(o.text) # <<>> THEN Strip(o.text)
             ELSE ExtractText(Tail(found))

-----------------------------------------------------------------------------
(* Availability in the site adapters *)

\* The availability strings of the adapters.
EN_STOCK ==   \* 'En stock'
    <<"E", "n", " ", "s", "t", "o", "c", "k">>
RUPTURE_DE_STOCK ==   \* 'Rupture de stock'
    <<"R", "u", "p", "t", "u", "r", "e", " ", "d", "e", " ", "s", "t", "o", "c", "k">>
TEMPORAIREMENT_INDISPONIBLE ==   \* 'Temporairement indisponible'
    <<"T", "e", "m", "p", "o", "r", "a", "i", "r", "e", "m", "e", "n", "t", " ", "i", "n", "d", "i", "s", "p", "o", "n", "i", "b", "l", "e">>
ANNONCE_EXPIREE ==   \* 'Annonce expirée'
    <<"A", "n", "n", "o", "n", "c", "e", " ", "e", "x", "p", "i", "r", "é", "e">>
DISPONIBILITE_INCONNUE ==   \* 'Disponibilité inconnue'
    <<"D", "i", "s", "p", "o", "n", "i", "b", "i", "l", "i", "t", "é", " ", "i", "n", "c", "o", "n", "n", "u", "e">>
DISPONIBLE ==   \* 'Disponible'
    <<"D", "i", "s", "p", "o", "n", "i", "b", "l", "e">>

\* shopify_scraper.py line 54: ['en stock', 'disponible', 'in stock', 'available']
in_stock_keywords ==
    {<<"e", "n", " ", "s", "t", "o", "c", "k">>,
     <<"d", "i", "s", "p", "o", "n", "i", "b", "l", "e">>,
     <<"i", "n", " ", "s", "t", "o", "c", "k">>,
     <<"a", "v", "a", "i", "l", "a", "b", "l", "e">>}
\* shopify_scraper.py line 57: ['rupture', 'épuisé', 'indisponible', 'out of stock', 'sold out']
out_of_stock_keywords ==
    {<<"r", "u", "p", "t", "u", "r", "e">>,
     <<"é", "p", "u", "i", "s", "é">>,
     <<"i", "n", "d", "i", "s", "p", "o", "n", "i", "b", "l", "e">>,
     <<"o", "u", "t", " ", "o", "f", " ", "s", "t", "o", "c", "k">>,
     <<"s", "o", "l", "d", " ", "o", "u", "t">>}
\* amazon_scraper.py line 115: ['en stock', 'in stock', 'disponible']
AmazonInStockPhrases ==
    {<<"e", "n", " ", "s", "t", "o", "c", "k">>,
     <<"i", "n", " ", "s", "t", "o", "c", "k">>,
     <<"d", "i", "s", "p", "o", "n", "i", "b", "l", "e">>}
\* amazon_scraper.py line 117: ['temporairement', 'currently unavailable', 'indisponible']
AmazonTemporaryPhrases ==
    {<<"t", "e", "m", "p", "o", "r", "a", "i", "r", "e", "m", "e", "n", "t">>,
     <<"c", "u", "r", "r", "e", "n", "t", "l", "y", " ", "u", "n", "a", "v", "a", "i", "l", "a", "b", "l", "e">>,
     <<"i", "n", "d", "i", "s", "p", "o", "n", "i", "b", "l", "e">>}
\* amazon_scraper.py line 119: ['rupture', 'out of stock']
AmazonOutOfStockPhrases ==
    {<<"r", "u", "p", "t", "u", "r", "e">>,
     <<"o", "u", "t", " ", "o", "f", " ", "s", "t", "o", "c", "k">>}
\* etsy_scraper.py line 78: 'en stock', ['disponible', 'available']
EtsyInStockWords ==
    {<<"e", "n", " ", "s", "t", "o", "c", "k">>,
     <<"d", "i", "s", "p", "o", "n", "i", "b", "l", "e">>,
     <<"a", "v", "a", "i", "l", "a", "b", "l", "e">>}
\* etsy_scraper.py line 80: ['épuisé', 'sold out', 'unavailable']
EtsyOutOfStockWords ==
    {<<"é", "p", "u", "i", "s", "é">>,
     <<"s", "o", "l", "d", " ", "o", "u", "t">>,
     <<"u", "n", "a", "v", "a", "i", "l", "a", "b", "l", "e">>}
\* leboncoin_scraper.py lines 50-54
unavailable_indicators ==
    {<<"C", "e", "t", "t", "e", " ", "a", "n", "n", "o", "n", "c", "e", " ", "n", "'", "e", "s", "t", " ", "p", "l", "u", "s", " ", "d", "i", "s", "p", "o", "n", "i", "b", "l", "e">>,
     <<"A", "n", "n", "o", "n", "c", "e", " ", "e", "x", "p", "i", "r", "é", "e">>,
     <<"C", "e", "t", "t", "e", " ", "a", "n", "n", "o", "n", "c", "e", " ", "a", " ", "é", "t", "é", " ", "s", "u", "p", "p", "r", "i", "m", "é", "e">>}

\* An add-to-cart control: its 'disabled' attribute (absent, or present with
\* a value: <button disabled> has the value ''), whether 'disabled' is one of
\* its classes, and its text.
Button(has_disabled, disabled_value, class_disabled, text) ==
    [has_disabled |-> has_disabled, disabled_value |-> disabled_value,
     class_disabled |-> class_disabled, text |-> text]

\* button.get('disabled') or 'disabled' in button.get('class', [])
ButtonDisabled(button) ==
    (button.has_disabled /\ button.disabled_value # <<>>) \/ button.class_disabled

\* shopify_scraper.py lines 69-77: the loop over the add-to-cart buttons.
RECURSIVE ShopifyButtons(_)
ShopifyButtons(buttons) ==
    IF buttons = <<>> THEN DISPONIBILITE_INCONNUE
    ELSE IF ButtonDisabled(Head(buttons)) THEN RUPTURE_DE_STOCK
    ELSE IF ContainsAny(Lower(Strip(Head(buttons).text)), out_of_stock_keywords)
      THEN RUPTURE_DE_STOCK
    ELSE ShopifyButtons(Tail(buttons))

\* ShopifyScraper.scrape_product lines 30-31 with _determine_availability.
ShopifyAvailability(doc) ==
    LET availability_text == Lower(ExtractText(doc.availability))
    IN  IF ContainsAny(availability_text, out_of_stock_keywords) THEN RUPTURE_DE_STOCK
        ELSE IF ContainsAny(availability_text, in_stock_keywords) THEN EN_STOCK
        ELSE ShopifyButtons(doc.buttons)

\* AmazonScraper._extract_amazon_availability
AmazonAvailability(doc) ==
    LET availability_text == ExtractText(doc.availability)
        availability_lower == Lower(availability_text)
    IN  IF availability_text = <<>> THEN DISPONIBILITE_INCONNUE
        ELSE IF ContainsAny(availability_lower, AmazonInStockPhrases) THEN EN_STOCK
        ELSE IF ContainsAny(availability_lower, AmazonTemporaryPhrases)
          THEN TEMPORAIREMENT_INDISPONIBLE
        ELSE IF ContainsAny(availability_lower, AmazonOutOfStockPhrases)
          THEN RUPTURE_DE_STOCK
        ELSE availability_text

\* etsy_scraper.py lines 85-93: the add-to-cart button.
EtsyButton(buttons) ==
    IF buttons = <<>> THEN DISPONIBILITE_INCONNUE
    ELSE IF ButtonDisabled(Head(buttons)) THEN RUPTURE_DE_STOCK
    ELSE EN_STOCK

\* EtsyScraper._extract_etsy_availability
EtsyAvailability(doc) ==
    LET stock_text == ExtractText(doc.availability)
        stock_lower == Lower(stock_text)
    IN  IF stock_text # <<>> /\ ContainsAny(stock_lower, EtsyInStockWords) THEN EN_STOCK
        ELSE IF stock_text # <<>> /\ ContainsAny(stock_lower, EtsyOutOfStockWords)
          THEN RUPTURE_DE_STOCK
        ELSE IF stock_text # <<>> /\ HasDigit(stock_text)
          THEN EN_STOCK \o <<" ", "(">> \o stock_text \o <<")">>
        ELSE EtsyButton(doc.buttons)

\* BeaconScraper.scrape_product lines 54-55
BeaconAvailability(doc) ==
    LET availability_text == ExtractText(doc.availability)
    IN  IF availability_text # <<>> THEN availability_text ELSE DISPONIBLE

\* FiverrScraper.scrape_product line 54
FiverrAvailability(doc) == DISPONIBLE

\* LeboncoinScraper._extract_leboncoin_availability
LeboncoinAvailability(doc) ==
    IF ContainsAny(doc.page_text, unavailable_indicators) THEN ANNONCE_EXPIREE
    ELSE DISPONIBLE

Adapters == {"shopify", "amazon", "etsy", "beacon", "fiverr", "leboncoin"}

\* The 'availability' of the dict that the adapter's scrape_product returns.
AdapterAvailability(site, doc) ==
    CASE site = "shopify" -> ShopifyAvailability(doc)
      [] site = "amazon" -> AmazonAvailability(doc)
      [] site = "etsy" -> EtsyAvailability(doc)
      [] site = "beacon" -> BeaconAvailability(doc)
      [] site = "fiverr" -> FiverrAvailability(doc)
      [] site = "leboncoin" -> LeboncoinAvailability(doc)

-----------------------------------------------------------------------------
(* Specifications of the extraction *)

\* _extract_text(soup, selectors) returns.
ExtractTextCall ==
    /\ epc = "extract"
    /\ extracted' = ExtractText(document.availability)
    /\ epc' = "done"
    /\ UNCHANGED <<adapter, document, product_availability>>
    /\ UNCHANGED notExtract

\* scrape_product computes the availability it returns.
ScrapeAvailability ==
    /\ epc = "scrape"
    /\ product_availability' = AdapterAvailability(adapter, document)
    /\ epc' = "done"
    /\ UNCHANGED <<adapter, document, extracted>>
    /\ UNCHANGED notExtract

\* What a selector of the list may give: nothing, an exception, or an element
\* whose text is empty, blank, surrounded by blanks, or plain.
CascadeOutcomes ==
    {NoMatch, SelectorError,
     Element(<<>>), Element(<<" ", "\n">>), Element(<<" ", "O", "k", " ">>),
     Element(<<"3">>), Element(<<"N", "o">>)}

CascadeInit ==
    /\ epc = "extract"
    /\ adapter = "none"
    /\ \E found \in SeqsUpTo(CascadeOutcomes, MaxSelectors) :
          document = [availability |-> found, buttons |-> <<>>, page_text |-> <<>>]
    /\ extracted = <<>>
    /\ product_availability = <<>>

CascadeSpecInit == FetchIdle /\ BatchIdle /\ DiffIdle /\ CascadeInit /\ CallIdle /\ RunIdle

CascadeSpec == CascadeSpecInit /\ [][ExtractTextCall]_vars

\* Texts of the availability element of a page (for Leboncoin, of the page).
AvailabilityTexts ==
    {<<"E", "n", " ", "s", "t", "o", "c", "k">>,
     <<"I", "n", " ", "S", "t", "o", "c", "k">>,
     <<"D", "i", "s", "p", "o", "n", "i", "b", "l", "e">>,
     <<"A", "v", "a", "i", "l", "a", "b", "l", "e">>,
     <<"R", "u", "p", "t", "u", "r", "e", " ", "d", "e", " ", "s", "t", "o", "c", "k">>,
     <<"O", "u", "t", " ", "o", "f", " ", "s", "t", "o", "c", "k">>,
     <<"S", "O", "L", "D", " ", "O", "U", "T">>,
     <<"É", "p", "u", "i", "s", "é">>,
     <<"A", "c", "t", "u", "e", "l", "l", "e", "m", "e", "n", "t", " ", "i", "n", "d", "i", "s", "p", "o", "n", "i", "b", "l", "e">>,
     <<"C", "u", "r", "r", "e", "n", "t", "l", "y", " ", "u", "n", "a", "v", "a", "i", "l", "a", "b", "l", "e">>,
     <<"T", "e", "m", "p", "o", "r", "a", "i", "r", "e", "m", "e", "n", "t", " ", "e", "n", " ", "r", "u", "p", "t", "u", "r", "e", " ", "d", "e", " ", "s", "t", "o", "c", "k">>,
     <<"U", "n", "a", "v", "a", "i", "l", "a", "b", "l", "e">>,
     <<"P", "l", "u", "s", " ", "q", "u", "e", " ", "3", " ", "e", "x", "e", "m", "p", "l", "a", "i", "r", "e", "s">>,
     <<"L", "i", "v", "r", "a", "i", "s", "o", "n", " ", "g", "r", "a", "t", "u", "i", "t", "e">>,
     <<"A", "n", "n", "o", "n", "c", "e", " ", "e", "x", "p", "i", "r", "é", "e">>,
     <<"C", "e", "t", "t", "e", " ", "a", "n", "n", "o", "n", "c", "e", " ", "n", "'", "e", "s", "t", " ", "p", "l", "u", "s", " ", "d", "i", "s", "p", "o", "n", "i", "b", "l", "e">>}

ADD_TO_CART ==   \* 'Ajouter au panier'
    <<"A", "j", "o", "u", "t", "e", "r", " ", "a", "u", " ", "p", "a", "n", "i", "e", "r">>

\* The add-to-cart controls of a page: none, an enabled one, one with
\* disabled="disabled", one with a bare `disabled`, one of class 'disabled',
\* and an enabled one that reads 'Sold out'.
ButtonChoices ==
    {<<>>,
     <<Button(FALSE, <<>>, FALSE, ADD_TO_CART)>>,
     <<Button(TRUE, <<"d", "i", "s", "a", "b", "l", "e", "d">>, FALSE, ADD_TO_CART)>>,
     <<Button(TRUE, <<>>, FALSE, ADD_TO_CART)>>,
     <<Button(FALSE, <<>>, TRUE, ADD_TO_CART)>>,
     <<Button(FALSE, <<>>, FALSE, <<"S", "o", "l", "d", " ", "o", "u", "t">>)>>}

\* A page whose first availability selector gives o.
Page(o, buttons) ==
    [availability |-> <<o, NoMatch, NoMatch>>,
     buttons |-> buttons,
     page_text |-> IF o.match = "element" THEN o.text ELSE <<>>]

ClassifyInit ==
    /\ epc = "scrape"
    /\ adapter \in Adapters
    /\ \E o \in {NoMatch} \cup {Element(t) : t \in AvailabilityTexts} :
          \E buttons \in ButtonChoices : document = Page(o, buttons)
    /\ extracted = <<>>
    /\ product_availability = <<>>

ClassifySpecInit == FetchIdle /\ BatchIdle /\ DiffIdle /\ ClassifyInit /\ CallIdle /\ RunIdle

ClassifySpec == ClassifySpecInit /\ [][ScrapeAvailability]_vars

-----------------------------------------------------------------------------
(* Numbers read from text: float(), and BaseScraper._clean_price             *)

\* str.replace on one character, and with the empty string.
Replace(text, old, new) == [k \in 1..Len(text) |-> IF text[k] = old THEN new ELSE text[k]]
Remove(text, c) == SelectSeq(text, LAMBDA x : x # c)

\* `c in text`, text.rfind(c)
HasChar(text, c) == \E k \in 1..Len(text) : text[k] = c
RFind(text, c) ==
    IF HasChar(text, c)
      THEN CHOOSE k \in 1..Len(text) : text[k] = c /\ \A j \in (k + 1)..Len(text) : text[j] # c
      ELSE -1

\* text.split(c)[-1]
AfterLast(text, c) ==
    IF HasChar(text, c) THEN SubSeq(text, RFind(text, c) + 1, Len(text)) ELSE text

\* A float written with a few decimal digits, kept exactly: (-1)^neg * num /
\* 10^scale, without trailing zeros, so that equal floats are equal values.
RECURSIVE Decimal(_, _, _)
Decimal(neg, num, scale) ==
    IF num = 0 THEN [neg |-> FALSE, num |-> 0, scale |-> 0]
    ELSE IF scale > 0 /\ num % 10 = 0 THEN Decimal(neg, num \div 10, scale - 1)
    ELSE [neg |-> neg, num |-> num, scale |-> scale]
Zero == Decimal(FALSE, 0, 0)

DigitValue ==
    ("0" :> 0) @@ ("1" :> 1) @@ ("2" :> 2) @@ ("3" :> 3) @@ ("4" :> 4)
    @@ ("5" :> 5) @@ ("6" :> 6) @@ ("7" :> 7) @@ ("8" :> 8) @@ ("9" :> 9)
RECURSIVE DigitsValue(_)
DigitsValue(ds) ==
    IF ds = <<>> THEN 0
    ELSE DigitsValue(SubSeq(ds, 1, Len(ds) - 1)) * 10 + DigitValue[ds[Len(ds)]]

\* float(text) for a text of digits, periods and a leading sign: the value,
\* or ValueError (no digit, two periods, any other character).
ValueError == [error |-> "ValueError"]
ParseFloat(text) ==
    LET signed == text # <<>> /\ text[1] \in {"+", "-"}
        body == IF signed THEN Tail(text) ELSE text
        ds == Remove(body, ".")
    IN  IF ds = <<>> \/ Len(body) - Len(ds) > 1 \/ \E k \in 1..Len(ds) : ds[k] \notin Digits
          THEN ValueError
          ELSE Decimal(signed /\ text[1] = "-", DigitsValue(ds),
                       IF HasChar(body, ".") THEN Len(body) - RFind(body, ".") ELSE 0)

\* Comparisons of such values with 0 and with a natural number.
IsPositive(x) == ~x.neg /\ x.num > 0
RECURSIVE Pow10(_)
Pow10(n) == IF n = 0 THEN 1 ELSE 10 * Pow10(n - 1)
AtMost(x, n) == x.neg \/ x.num <= n * Pow10(x.scale)

\* re.sub(r'[^\d.,]', '', price_text)
KeepPriceChars(text) == SelectSeq(text, LAMBDA c : c \in Digits \cup {".", ","})

\* Mutant: the sign of the text is kept.
CleanPrice_Signed(price_text) ==
    LET price_clean == Replace(SelectSeq(price_text,
                                         LAMBDA c : c \in Digits \cup {".", ",", "-"}),
                               ",", ".")
        value == ParseFloat(price_clean)
    IN  IF value = ValueError THEN Zero ELSE value

\* Mutant: a comma is always the decimal separator.
CleanPrice_CommaDecimal(price_text) ==
    LET value == ParseFloat(Replace(Remove(KeepPriceChars(price_text), "."), ",", "."))
    IN  IF value = ValueError THEN Zero ELSE value

\* BaseScraper._clean_price, base_scraper.py lines 102-138
CleanPrice(price_text) ==
    IF price_text = <<>> THEN Zero
    ELSE LET kept == KeepPriceChars(price_text)
             price_clean ==
                 IF HasChar(kept, ",") /\ HasChar(kept, ".")
                   THEN IF RFind(kept, ",") > RFind(kept, ".")
                          THEN Replace(Remove(kept, "."), ",", ".")
                          ELSE Remove(kept, ",")
                 ELSE IF HasChar(kept, ",")
                   THEN IF Len(AfterLast(kept, ",")) <= 2
                          THEN Replace(kept, ",", ".")
                          ELSE Remove(kept, ",")
                 ELSE kept
             value == ParseFloat(price_clean)
         IN  IF value = ValueError THEN Zero ELSE value

\* AmazonScraper._extract_amazon_price and EtsyScraper._extract_etsy_price:
\* texts are the texts of the elements in the order the two nested loops
\* meet them.
RECURSIVE FirstPositivePrice(_)
FirstPositivePrice(texts) ==
    IF texts = <<>> THEN Zero
    ELSE LET price == CleanPrice(Strip(Head(texts)))
         IN  IF IsPositive(price) THEN price ELSE FirstPositivePrice(Tail(texts))

\* _clean_price(price_text) returns.
CleanPriceCall ==
    /\ npc = "called"
    /\ callee = "_clean_price"
    /\ returned' = CleanPrice(argument)
    /\ npc' = "done"
    /\ UNCHANGED <<callee, argument>>
    /\ UNCHANGED notCall

\* _extract_amazon_price(soup) or _extract_etsy_price(soup) returns.
SitePriceCall ==
    /\ npc = "called"
    /\ callee \in {"_extract_amazon_price", "_extract_etsy_price"}
    /\ returned' = FirstPositivePrice(argument)
    /\ npc' = "done"
    /\ UNCHANGED <<callee, argument>>
    /\ UNCHANGED notCall

\* Price texts: every text of up to MaxPriceLen characters over two digits,
\* the two separators and the minus sign, and longer texts as pages show them.
PriceAlphabet == {"0", "1", ",", ".", "-"}
ExamplePriceTexts ==
    {<<"1", ".", "2", "3", "4", ",", "5", "6">>,
     <<"1", ",", "2", "3", "4", ".", "5", "6">>,
     <<"1", "2", ",", "5", "0">>,
     <<"a", "b", "c">>,
     <<"1", ",", "2", "3", "4", ",", "5", "6">>,
     <<"1", ",", "2", "3", "4", ",", "5", "6", "7">>,
     <<"-", "1", "2", ",", "5", "0">>,
     <<"1", "9", ",", "9", "9", " ", "€">>,
     <<"$", "1", ",", "2", "9", "9">>,
     <<"1", " ", "2", "3", "4", ",", "5", "6">>,
     <<"P", "r", "i", "x", ":", " ", "1", "2", ".", "5">>}
PriceTexts == SeqsUpTo(PriceAlphabet, MaxPriceLen) \cup ExamplePriceTexts

\* Texts of the price elements of an Amazon or Etsy page.
SitePriceTexts ==
    {<<>>,
     <<"-", "5">>,
     <<"0", ",", "0", "0">>,
     <<"1", "2", ",", "5", "0">>,
     <<"a", "b", "c">>,
     <<" ", "1", "9", ".", "9", "9", " ">>}

PriceInit ==
    /\ npc = "called"
    /\ \/ callee = "_clean_price" /\ argument \in PriceTexts
       \/ /\ callee \in {"_extract_amazon_price", "_extract_etsy_price"}
          /\ argument \in SeqsUpTo(SitePriceTexts, MaxPriceElements)
    /\ returned = <<>>

PriceSpecInit == FetchIdle /\ BatchIdle /\ DiffIdle /\ ExtractIdle /\ PriceInit /\ RunIdle

PriceNext == CleanPriceCall \/ SitePriceCall

PriceSpec == PriceSpecInit /\ [][PriceNext]_vars

-----------------------------------------------------------------------------
(* The description stored by the site adapters *)

\* The length the adapters cut a description to.
DESCRIPTION_LIMIT == 500
\* The number of bullets the Amazon adapter reads.
BULLET_LIMIT == 5

\* Mutant: the slice keeps the whole sequence.
Take_Whole(text, n) == text

\* text[:n], bullets[:n]
Take(text, n) == SubSeq(text, 1, IF Len(text) < n THEN Len(text) ELSE n)

\* separator.join(texts)
RECURSIVE Join(_, _)
Join(separator, texts) ==
    IF texts = <<>> THEN <<>>
    ELSE IF Len(texts) = 1 THEN texts[1]
    ELSE texts[1] \o separator \o Join(separator, Tail(texts))

\* Elements a description selector finds: a bullet list with the texts of its
\* items, or another element with its text (both as get_text(strip=True)
\* gives them).
BulletList(items) == [match |-> "element", name |-> "ul", items |-> items]
Block(text) == [match |-> "element", name |-> "div", text |-> text]

\* `description[:500] if description else ''` of the Shopify, Etsy, Leboncoin,
\* Beacon and Fiverr adapters, on the text _extract_text returned.
Description(text) == IF text # <<>> THEN Take(text, DESCRIPTION_LIMIT) ELSE <<>>

\* Lines 167-171 of the Amazon adapter: the text of one matched element.
ElementDescription(element) ==
    IF element.name = "ul"
      THEN Join(<<" ", "|", " ">>, Take(element.items, BULLET_LIMIT))
      ELSE element.text

\* AmazonScraper._extract_amazon_description: the selectors are tried in order;
\* elements[k] is what select_one finds for the k-th one.
RECURSIVE AmazonDescription(_)
AmazonDescription(elements) ==
    IF elements = <<>> THEN <<>>
    ELSE IF Head(elements) # NoMatch /\ ElementDescription(Head(elements)) # <<>>
      THEN Take(ElementDescription(Head(elements)), DESCRIPTION_LIMIT)
    ELSE AmazonDescription(Tail(elements))

DescriptionAdapters == {"shopify", "etsy", "leboncoin", "beacon", "fiverr"}

\* scrape_product of an adapter other than Amazon builds its description.
DescriptionCall ==
    /\ npc = "called"
    /\ callee \in DescriptionAdapters
    /\ returned' = Description(argument)
    /\ npc' = "done"
    /\ UNCHANGED <<callee, argument>>
    /\ UNCHANGED notCall

\* _extract_amazon_description(soup) returns.
AmazonDescriptionCall ==
    /\ npc = "called"
    /\ callee = "amazon"
    /\ returned' = AmazonDescription(argument)
    /\ npc' = "done"
    /\ UNCHANGED <<callee, argument>>
    /\ UNCHANGED notCall

\* A text of n characters.
TextOfLen(n) == [k \in 1..n |-> "x"]

\* Texts of description elements: none, short, and around the limit.
DescriptionTexts ==
    {<<>>, <<"a", "b", "c">>, TextOfLen(DESCRIPTION_LIMIT - 1),
     TextOfLen(DESCRIPTION_LIMIT), TextOfLen(DESCRIPTION_LIMIT + 1),
     TextOfLen(DESCRIPTION_LIMIT + 120)}

\* Texts of bullets: five long ones exceed the limit once joined.
BulletTexts == {<<>>, TextOfLen(120)}

DescriptionElements ==
    {NoMatch}
    \cup {Block(text) : text \in {<<>>, <<"a", "b", "c">>, TextOfLen(DESCRIPTION_LIMIT + 1)}}
    \cup {BulletList(items) : items \in SeqsUpTo(BulletTexts, MaxBullets)}

DescriptionInit ==
    /\ npc = "called"
    /\ \/ callee \in DescriptionAdapters /\ argument \in DescriptionTexts
       \/ /\ callee = "amazon"
          /\ argument \in SeqsUpTo(DescriptionElements, MaxDescSelectors)
    /\ returned = <<>>

DescriptionSpecInit ==
    FetchIdle /\ BatchIdle /\ DiffIdle /\ ExtractIdle /\ DescriptionInit /\ RunIdle

DescriptionNext == DescriptionCall \/ AmazonDescriptionCall

DescriptionSpec == DescriptionSpecInit /\ [][DescriptionNext]_vars

-----------------------------------------------------------------------------
(* Ratings and review counts: BaseScraper._extract_rating and the review     *)
(* extractors of the Amazon, Etsy and Fiverr adapters                        *)

\* The length of the run of characters of `class` that starts at text[k].
RECURSIVE RunLen(_, _, _)
RunLen(text, k, class) ==
    IF k <= Len(text) /\ text[k] \in class THEN 1 + RunLen(text, k + 1, class) ELSE 0

\* text[k:].startswith(word)
StartsWith(text, k, word) ==
    k + Len(word) - 1 <= Len(text) /\ SubSeq(text, k, k + Len(word) - 1) = word

\* The length of the match of (\d+[.,]\d+) at text[k], 0 if there is none.
\* What follows the group in each pattern is not a digit, so both runs of
\* digits are whole runs.
DecimalLen(text, k) ==
    LET n1 == RunLen(text, k, Digits)
        n2 == RunLen(text, k + n1 + 1, Digits)
    IN  IF n1 > 0 /\ k + n1 <= Len(text) /\ text[k + n1] \in {".", ","} /\ n2 > 0
          THEN n1 + 1 + n2 ELSE 0

\* The character U+2605 (black star) of the rating texts, written '*'.
BlackStar == "*"

\* What follows `(\d+[.,]\d+)\s*` in rating_patterns[pattern], matched at text[p]:
\*   1  [/sur]\s*5     2  U+2605     3  étoiles?     4  stars?
RatingSuffixAt(pattern, text, p) ==
    CASE pattern = 1 ->
           /\ p <= Len(text)
           /\ text[p] \in {"/", "s", "u", "r"}
           /\ StartsWith(text, p + 1 + RunLen(text, p + 1, Whitespace), <<"5">>)
      [] pattern = 2 -> StartsWith(text, p, <<BlackStar>>)
      [] pattern = 3 -> StartsWith(text, p, <<"é", "t", "o", "i", "l", "e">>)
      [] pattern = 4 -> StartsWith(text, p, <<"s", "t", "a", "r">>)

\* The smallest member of a non-empty set of positions.
Leftmost(S) == CHOOSE k \in S : \A j \in S : k <= j

\* re.search(rating_patterns[pattern], text): group(1) of the leftmost match.
SearchRating(pattern, text) ==
    LET S == {k \in 1..Len(text) :
                 /\ DecimalLen(text, k) > 0
                 /\ RatingSuffixAt(pattern, text,
                        k + DecimalLen(text, k)
                          + RunLen(text, k + DecimalLen(text, k), Whitespace))}
    IN  IF S = {} THEN NoMatch
        ELSE [match |-> "group",
              group |-> SubSeq(text, Leftmost(S), Leftmost(S) + DecimalLen(text, Leftmost(S)) - 1)]

\* review_patterns: (\d+)\s*avis, (\d+)\s*reviews?, (\d+)\s*évaluations?
review_words ==
    <<<<"a", "v", "i", "s">>,
      <<"r", "e", "v", "i", "e", "w">>,
      <<"é", "v", "a", "l", "u", "a", "t", "i", "o", "n">>>>

\* re.search(r'(\d+)\s*' + word, text): group(1) of the leftmost match.
SearchCount(word, text) ==
    LET n(k) == RunLen(text, k, Digits)
        S == {k \in 1..Len(text) :
                 /\ n(k) > 0
                 /\ StartsWith(text, k + n(k) + RunLen(text, k + n(k), Whitespace), word)}
    IN  IF S = {} THEN NoMatch
        ELSE [match |-> "group", group |-> SubSeq(text, Leftmost(S), Leftmost(S) + n(Leftmost(S)) - 1)]

\* re.search(r'(\d+)', text): the first run of digits.
SearchDigits(text) ==
    LET S == {k \in 1..Len(text) : text[k] \in Digits}
    IN  IF S = {} THEN NoMatch
        ELSE [match |-> "group",
              group |-> SubSeq(text, Leftmost(S), Leftmost(S) + RunLen(text, Leftmost(S), Digits) - 1)]

\* int(text): surrounding whitespace is dropped; the number, or ValueError.
ParseInt(text) ==
    LET body == Strip(text)
    IN  IF body = <<>> \/ \E k \in 1..Len(body) : body[k] \notin Digits
          THEN ValueError
          ELSE Num(DigitsValue(body))

\* BaseScraper._extract_rating, base_scraper.py lines 140-190.  float() of a
\* group of the rating patterns and int() of a group of the review patterns
\* never raise.
ExtractRating(rating_text) ==
    IF rating_text = <<>> THEN [rating |-> None, review_count |-> None]
    ELSE LET lower == Lower(rating_text)
             R == {p \in 1..4 : SearchRating(p, lower) # NoMatch}
             C == {p \in 1..3 : SearchCount(review_words[p], lower) # NoMatch}
         IN  [rating |->
                 IF R = {} THEN None
                 ELSE ParseFloat(Replace(SearchRating(Leftmost(R), lower).group, ",", ".")),
              review_count |->
                 IF C = {} THEN None
                 ELSE ParseInt(SearchCount(review_words[Leftmost(C)], lower).group)]

\* text.split()[0] of a text that holds a word.
FirstWord(text) ==
    LET body == StripLeft(text)
        n == CHOOSE m \in 0..Len(body) :
                 /\ \A k \in 1..m : body[k] \notin Whitespace
                 /\ m < Len(body) => body[m + 1] \in Whitespace
    IN  SubSeq(body, 1, n)

\* AmazonScraper._extract_amazon_reviews, the loop of lines 131-138 over the
\* texts of the rating elements.
RECURSIVE AmazonRating(_)
AmazonRating(texts) ==
    IF texts = <<>> THEN None
    ELSE LET text == Head(texts)
             value == ParseFloat(Replace(FirstWord(text), ",", "."))
         IN  IF /\ \/ Contains(text, <<"s", "u", "r", " ", "5">>)
                   \/ Contains(text, <<"o", "u", "t", " ", "o", "f", " ", "5">>)
                /\ value # ValueError
               THEN value
               ELSE AmazonRating(Tail(texts))

\* The first run of digits, whitespace and commas: re.search(r'([\d\s,]+)', text).
SearchGrouped(text) ==
    LET class == Digits \cup Whitespace \cup {","}
        S == {k \in 1..Len(text) : text[k] \in class}
    IN  IF S = {} THEN NoMatch
        ELSE [match |-> "group",
              group |-> SubSeq(text, Leftmost(S), Leftmost(S) + RunLen(text, Leftmost(S), class) - 1)]

\* The loop of lines 142-151 over the texts of the review elements.
RECURSIVE AmazonReviewCount(_)
AmazonReviewCount(texts) ==
    IF texts = <<>> THEN None
    ELSE LET match == SearchGrouped(Remove(Remove(Head(texts), "."), " "))
             count == IF match = NoMatch THEN ValueError
                      ELSE ParseInt(Remove(Remove(match.group, ","), " "))
         IN  IF count # ValueError THEN count ELSE AmazonReviewCount(Tail(texts))

AmazonReviews(page) ==
    [rating |-> AmazonRating(page.rating_texts),
     review_count |-> AmazonReviewCount(page.review_texts)]

\* `if rating_info['rating']:` a rating that is neither None nor 0.0
Truthy(rating) == rating # None /\ rating # Zero

\* EtsyScraper._extract_etsy_reviews, the loop of lines 107-114 over the texts
\* of the elements its selectors find.
RECURSIVE EtsyRating(_)
EtsyRating(texts) ==
    IF texts = <<>> THEN None
    ELSE LET rating_info == ExtractRating(Strip(Head(texts)))
         IN  IF Truthy(rating_info.rating) THEN rating_info.rating
             ELSE EtsyRating(Tail(texts))

\* The first text with a run of digits, commas removed, gives the count: the
\* loop of etsy_scraper.py lines 123-131 and of fiverr_scraper.py lines 90-96.
RECURSIVE FirstCount(_)
FirstCount(texts) ==
    IF texts = <<>> THEN None
    ELSE LET match == SearchDigits(Remove(Head(texts), ","))
         IN  IF match # NoMatch THEN ParseInt(match.group) ELSE FirstCount(Tail(texts))

EtsyReviews(page) ==
    [rating |-> EtsyRating(page.rating_texts),
     review_count |-> FirstCount(page.review_texts)]

\* FiverrScraper._extract_fiverr_reviews, the loop of lines 78-86: `rating` is
\* assigned before it is compared with 5, and keeps its value when the loop
\* goes on.
RECURSIVE FiverrRating(_, _)
FiverrRating(texts, rating) ==
    IF texts = <<>> THEN rating
    ELSE LET text == Strip(Head(texts))
             value == ParseFloat(Replace(text, ",", "."))
         IN  IF text = <<>> \/ value = ValueError THEN FiverrRating(Tail(texts), rating)
             ELSE IF AtMost(value, 5) THEN value
             ELSE FiverrRating(Tail(texts), value)

FiverrReviews(page) ==
    [rating |-> FiverrRating(page.rating_texts, None),
     review_count |-> FirstCount(page.review_texts)]

\* _extract_rating(rating_text) returns.
ExtractRatingCall ==
    /\ npc = "called"
    /\ callee = "_extract_rating"
    /\ returned' = ExtractRating(argument)
    /\ npc' = "done"
    /\ UNCHANGED <<callee, argument>>
    /\ UNCHANGED notCall

\* The review extractor of an adapter returns.
SiteReviewsCall ==
    /\ npc = "called"
    /\ callee \in {"_extract_amazon_reviews", "_extract_etsy_reviews",
                   "_extract_fiverr_reviews"}
    /\ returned' = CASE callee = "_extract_amazon_reviews" -> AmazonReviews(argument)
                     [] callee = "_extract_etsy_reviews" -> EtsyReviews(argument)
                     [] callee = "_extract_fiverr_reviews" -> FiverrReviews(argument)
    /\ npc' = "done"
    /\ UNCHANGED <<callee, argument>>
    /\ UNCHANGED notCall

\* Review texts of a page: a number, a separator, what marks it as a rating,
\* and a count of reviews; each part may be missing.
RatingNumbers ==
    {<<"4", ".", "5">>,
     <<"4", ",", "5">>,
     <<"9", ".", "5">>,
     <<"0", ".", "0">>,
     <<"5", ".", "0">>,
     <<"1", "2", ",", "7", "5">>,
     <<"4", "5">>,
     <<>>}
RatingMarks ==
    {<<"/", "5">>,
     <<" ", "s", "u", "r", " ", "5">>,
     <<"*">>,
     <<" ", "é", "t", "o", "i", "l", "e", "s">>,
     <<" ", "S", "t", "a", "r", "s">>,
     <<>>,
     <<" ", "o", "u", "t", " ", "o", "f", " ", "5">>,
     <<" ", "/", "5">>,
     <<" ", " ", "s", "u", "r", " ", "5">>,
     <<" ", "*">>,
     <<" ", " ", "é", "t", "o", "i", "l", "e", "s">>,
     <<" ", " ", "S", "t", "a", "r", "s">>,
     <<" ">>,
     <<" ", " ", "o", "u", "t", " ", "o", "f", " ", "5">>}
ReviewParts ==
    {<<>>,
     <<" ", "1", "2", " ", "a", "v", "i", "s">>,
     <<" ", "(", "1", " ", "2", "3", "4", " ", "R", "e", "v", "i", "e", "w", "s", ")">>,
     <<" ", "0", " ", "é", "v", "a", "l", "u", "a", "t", "i", "o", "n", "s">>}
RatingTexts ==
    {number \o mark \o reviews :
        number \in RatingNumbers, mark \in RatingMarks, reviews \in ReviewParts}

\* Texts of the candidate elements of each site.
AmazonRatingTexts ==
    {<<"4", ",", "5", " ", "s", "u", "r", " ", "5", " ", "é", "t", "o", "i", "l", "e", "s">>,
     <<"4", ".", "5", " ", "o", "u", "t", " ", "o", "f", " ", "5", " ", "s", "t", "a", "r", "s">>,
     <<"9", ",", "5", " ", "s", "u", "r", " ", "5">>,
     <<"s", "u", "r", " ", "5">>,
     <<"a", "b", "c">>,
     <<"-", "1", " ", "o", "u", "t", " ", "o", "f", " ", "5">>}
AmazonReviewTexts ==
    {<<"1", " ", "2", "3", "4", " ", "é", "v", "a", "l", "u", "a", "t", "i", "o", "n", "s">>,
     <<"1", ",", "2", "3", "4", " ", "r", "a", "t", "i", "n", "g", "s">>,
     <<"a", "b", "c">>,
     <<"1", "2">>,
     <<",", " ", "7">>}
EtsyRatingTexts ==
    {<<"4", ".", "5", " ", "s", "t", "a", "r", "s">>,
     <<"0", ".", "0", "/", "5">>,
     <<"7", ",", "5", "*">>,
     <<"a", "b", "c">>,
     <<>>}
EtsyReviewTexts ==
    {<<"1", "2", " ", "a", "v", "i", "s">>,
     <<"(", "1", ",", "2", "3", "4", ")">>,
     <<"a", "b", "c">>}
FiverrRatingTexts ==
    {<<>>,
     <<"4", ".", "9">>,
     <<"4", ",", "9">>,
     <<"9", ".", "8">>,
     <<"-", "3">>,
     <<"a", "b", "c">>,
     <<"5">>,
     <<" ", "5", ".", "0", " ">>}
FiverrReviewTexts ==
    {<<>>,
     <<"1", "2">>,
     <<"(", "1", ",", "2", "3", "4", ")">>,
     <<"n", "o", " ", "r", "e", "v", "i", "e", "w", "s">>}

ReviewPages(rating_texts, review_texts) ==
    [rating_texts : SeqsUpTo(rating_texts, MaxRatingElements),
     review_texts : SeqsUpTo(review_texts, MaxReviewElements)]

RatingInit ==
    /\ npc = "called"
    /\ \/ callee = "_extract_rating" /\ argument \in RatingTexts
       \/ /\ callee = "_extract_amazon_reviews"
          /\ argument \in ReviewPages(AmazonRatingTexts, AmazonReviewTexts)
       \/ /\ callee = "_extract_etsy_reviews"
          /\ argument \in ReviewPages(EtsyRatingTexts, EtsyReviewTexts)
       \/ /\ callee = "_extract_fiverr_reviews"
          /\ argument \in ReviewPages(FiverrRatingTexts, FiverrReviewTexts)
    /\ returned = <<>>

RatingSpecInit == FetchIdle /\ BatchIdle /\ DiffIdle /\ ExtractIdle /\ RatingInit /\ RunIdle

RatingNext == ExtractRatingCall \/ SiteReviewsCall

RatingSpec == RatingSpecInit /\ [][RatingNext]_vars

-----------------------------------------------------------------------------
(* CompetitiveScraper.run_single_scraping, src/main.py:270-302, with         *)
(* generate_reports (182-216), check_changes_and_alert (218-268),            *)
(* ReportGenerator.generate_csv_report and FileLoader.save_historical_data   *)

\* The empty string, as a path.
NoPath == <<>>

\* A field of a CSV file: empty, or the text of a value.
EmptyField == [field |-> "empty"]
Field(x) == [field |-> "value", v |-> x]

\* The columns of the rows that hold text.
TextColumns == {"title", "availability"}

\* df.to_csv: NaN and the empty string are both written as an empty field.
ToCsvCell(key, c) ==
    IF c.nan THEN EmptyField
    ELSE IF key \in TextColumns /\ c.v = "" THEN EmptyField
    ELSE Field(c.v)

\* pd.read_csv: an empty field is read as NaN.
ReadCsvCell(f) == IF f = EmptyField THEN NaN ELSE Val(f.v)

\* FileLoader.save_historical_data, file_loader.py lines 101-104: the content
\* of the file written at clock reading `now`.
SaveHistoricalData(data, now) ==
    [k \in 1..Len(data) |->
        [key \in DOMAIN data[k] \cup {"scraped_at"} |->
            IF key = "url" THEN data[k].url
            ELSE IF key = "scraped_at" THEN Field(now)
            ELSE ToCsvCell(key, data[k][key])]]

\* FileLoader.load_historical_data and to_dict('records'), main.py line 246.
LoadHistoricalData(file) ==
    [k \in 1..Len(file) |->
        [key \in DOMAIN file[k] |->
            IF key = "url" THEN file[k].url ELSE ReadCsvCell(file[k][key])]]

\* ReportGenerator._clean_dataframe, report_generator.py lines 203-217, on the
\* columns of the model: success is mapped to 'Oui' / 'Non' (prices are held
\* in cents, which round(2) leaves as they are).
CleanDataframe(df) ==
    [k \in 1..Len(df) |->
        [key \in DOMAIN df[k] |->
            IF key = "success"
              THEN IF df[k].success.nan THEN NaN
                   ELSE Val(IF df[k].success.v THEN "Oui" ELSE "Non")
              ELSE df[k][key]]]

\* Lines 64-67 of generate_csv_report, after the file is written: the
\* exception raised by sum(df['success']) and sum(~df['success']), "none" if
\* there is none.  sum starts from 0 and adds the cells: 0 + 'Oui' is a
\* TypeError; on a column of NaN only, ~ is a TypeError; without the column,
\* df['success'] is a KeyError.
LogCounts(df) ==
    IF "success" \notin Columns(df) THEN "KeyError"
    ELSE IF \E k \in 1..Len(df) : ~RowGet(df, df[k], "success", NaN).nan THEN "TypeError"
    ELSE "TypeError"

\* ReportGenerator.generate_csv_report, lines 18-73: the returned path, and
\* whether the file was written; to_csv_ok is whether df.to_csv succeeds.
GenerateCsvReport(data, now, to_csv_ok) ==
    IF data = <<>> THEN [path |-> NoPath, written |-> FALSE]
    ELSE LET df == CleanDataframe(data)
         IN  IF ~to_csv_ok THEN [path |-> NoPath, written |-> FALSE]
             ELSE IF LogCounts(df) # "none" THEN [path |-> NoPath, written |-> TRUE]
             ELSE [path |-> <<"competitive_report", now>>, written |-> TRUE]

\* A scraped record: the extracted fields and success.
Scraped(row, ok) ==
    [key \in DOMAIN row \cup {"success"} |-> IF key = "success" THEN Val(ok) ELSE row[key]]

\* What scrape_products may return in a run: nothing, or the record of one
\* product (in stock, out of stock at a lower price, in stock at a higher
\* price, out of stock at the same price, or failed).
RunSnapshots ==
    {<<>>}
    \cup {<<Scraped(row, TRUE)>> :
             row \in {RowInStock("X"), RowOutOfStock("X"),
                      [RowInStock("X") EXCEPT !.price = Val(11000)],
                      [RowInStock("X") EXCEPT !.availability = Val("Rupture de stock")]}}
    \cup {<<Scraped(RowFailed("X"), FALSE)>>}

\* run_single_scraping, lines 282-288: the URLs are loaded and scraped.
StartRun(data) ==
    /\ rpc \in {"idle", "checked"}
    /\ run < MaxRuns
    /\ run' = run + 1
    /\ run_data' = data
    /\ reports_generated' = <<>>
    /\ compared_file' = 0
    /\ comparison_report' = <<>>
    /\ alerts' = <<>>
    /\ rpc' = "scraped"
    /\ UNCHANGED <<reports_dir, data_dir>>
    /\ UNCHANGED notRun

\* generate_reports, lines 182-216; to_csv_ok and save_ok are whether the
\* writes of the report and of the snapshot succeed.
GenerateReports(to_csv_ok, save_ok) ==
    /\ rpc = "scraped"
    /\ LET csv_report == GenerateCsvReport(run_data, run, to_csv_ok)
       IN  /\ reports_dir' = IF csv_report.written THEN reports_dir \cup {run}
                                                   ELSE reports_dir
           /\ reports_generated' =
                 IF csv_report.path # NoPath THEN [csv |-> csv_report.path] ELSE <<>>
    /\ data_dir' =
          IF save_ok
            THEN [f \in DOMAIN data_dir \cup {run} |->
                     IF f = run THEN SaveHistoricalData(run_data, run) ELSE data_dir[f]]
            ELSE data_dir
    /\ rpc' = "reported"
    /\ UNCHANGED <<run, run_data, compared_file, comparison_report, alerts>>
    /\ UNCHANGED notRun

\* historical_files.sort(reverse=True); historical_files[1]: the file with
\* exactly one later file.
SecondLatest(files) ==
    CHOOSE f \in files : Cardinality({g \in files : g > f}) = 1

\* Mutant: the availability alert is sent only along with a price alert.
AlertsOf_Nested(comparison) ==
    IF comparison.price_changes # <<>>
      THEN <<[alert |-> "send_price_change_alert", changes |-> comparison.price_changes]>>
           \o (IF comparison.availability_changes # <<>>
                 THEN <<[alert |-> "send_availability_alert",
                         changes |-> comparison.availability_changes]>>
                 ELSE <<>>)
      ELSE <<>>

\* The calls made to the notifier, lines 262-268.
AlertsOf(comparison) ==
    (IF comparison.price_changes # <<>>
       THEN <<[alert |-> "send_price_change_alert", changes |-> comparison.price_changes]>>
       ELSE <<>>)
    \o (IF comparison.availability_changes # <<>>
          THEN <<[alert |-> "send_availability_alert",
                  changes |-> comparison.availability_changes]>>
          ELSE <<>>)

\* check_changes_and_alert, lines 218-268; load_ok is whether the previous
\* file can be read.
CheckChangesAndAlert(load_ok) ==
    /\ rpc = "reported"
    /\ IF Cardinality(DOMAIN data_dir) < 2 \/ ~load_ok
         THEN UNCHANGED <<compared_file, comparison_report, alerts>>
         ELSE LET previous_file == SecondLatest(DOMAIN data_dir)
                  previous_data == LoadHistoricalData(data_dir[previous_file])
              IN  /\ compared_file' = previous_file
                  /\ \E oc \in Orders(CommonUrls(run_data, previous_data)),
                        on \in Orders(NewUrls(run_data, previous_data)),
                        or \in Orders(RemovedUrls(run_data, previous_data)) :
                        comparison_report' =
                            GenerateComparisonReport(run_data, previous_data, oc, on, or)
                  /\ alerts' = IF DOMAIN comparison_report' = {} THEN <<>>
                               ELSE AlertsOf(comparison_report')
    /\ rpc' = "checked"
    /\ UNCHANGED <<run, run_data, reports_dir, data_dir, reports_generated>>
    /\ UNCHANGED notRun

RunSpecInit == FetchIdle /\ BatchIdle /\ DiffIdle /\ ExtractIdle /\ CallIdle /\ RunIdle

RunNext ==
    \/ \E data \in RunSnapshots : StartRun(data)
    \/ \E to_csv_ok, save_ok \in BOOLEAN : GenerateReports(to_csv_ok, save_ok)
    \/ \E load_ok \in BOOLEAN : CheckChangesAndAlert(load_ok)

RunSpec == RunSpecInit /\ [][RunNext]_vars


-----------------------------------------------------------------------------
(* Specifications of the fetch *)

FetchStep == ForNext \/ RetryDelay \/ (\E o \in Outcomes : Get(o))

Init == FetchIdle /\ BatchIdle /\ DiffIdle /\ ExtractIdle /\ CallIdle /\ RunIdle

Next ==
    \/ \E arg \in RetryArgs : MakeRequest(arg)
    \/ ForNext
    \/ RetryDelay
    \/ \E o \in Outcomes : Get(o)

Spec == Init /\ [][Next]_vars

\* The body of the call is sequential code: every sleep ends and every
\* session.get ends (timeout=DEFAULT_TIMEOUT), so a started call keeps stepping.
FairSpec == Spec /\ WF_vars(FetchStep)

-----------------------------------------------------------------------------
(* Claims about the fetch, checked under Spec / FairSpec *)

Last(s) == s[Len(s)]

\* C1: with maxRetries=3, a fetch whose attempts 1 and 2 receive 429 and whose
\* attempt 3 receives 200 has not ended after attempt 2, and ends after
\* attempt 3 returning the response of attempt 3.
C1_RetryScenario ==
    (/\ mrArg = Explicit(3)
     /\ Len(statuses) >= 2
     /\ statuses[1] = Status(429)
     /\ statuses[2] = Status(429))
    => /\ Len(statuses) = 2 => pc \in {"for", "sleep", "get"}
       /\ (Len(statuses) = 3 /\ statuses[3] = Status(200))
              => (pc = "done" /\ result = Response(3))

C1_Witness ==
    /\ mrArg = Explicit(3)
    /\ statuses = <<Status(429), Status(429), Status(200)>>
    /\ pc = "done"
    /\ result = Response(3)

\* C2: the number of GET attempts of one call never exceeds the maxRetries
\* passed explicitly (any integer >= 0), and never exceeds 3 when it is omitted.
C2_AttemptsWithinMaxRetries ==
    Len(statuses) <= (IF mrArg.given THEN mrArg.n ELSE 3)

\* C3: every fetch call terminates; it returns the response of the first
\* attempt that receives 200 and attempts nothing after it; with no 200 it
\* returns None after exactly the number of attempts the call permits (the
\* retry budget fixed at its entry).
C3_ResultAtReturn ==
    /\ pc # "raised"
    /\ pc = "done" =>
         \/ /\ result = None
            /\ Len(statuses) = max_retries
            /\ \A k \in 1..Len(statuses) : statuses[k] # Status(200)
         \/ /\ statuses # <<>>
            /\ result = Response(Len(statuses))
            /\ Last(statuses) = Status(200)
            /\ \A k \in 1..(Len(statuses) - 1) : statuses[k] # Status(200)
    /\ \A k \in 1..(Len(statuses) - 1) : statuses[k] # Status(200)

C3_FetchTerminates ==
    /\ []C3_ResultAtReturn
    /\ (pc \in {"for", "sleep", "get"}) ~> (pc = "done")

C3_Witness ==
    /\ pc = "done"
    /\ result = None
    /\ mrArg = Omitted
    /\ statuses = <<Status(500), Raises("Timeout"), Status(429)>>

\* C4: no wait precedes attempt 1; every later attempt is preceded by a wait
\* of the base delay plus a jitter in [1, 3]; after an attempt that received
\* 403 or 429 a wait in [5, 10] comes first, before the next attempt starts.
C4_WaitsBeforeAttempt ==
    pc = "get" =>
        IF attempt = 0
          THEN sinceGet = <<>>
          ELSE /\ sinceGet # <<>>
               /\ Last(sinceGet) - DELAY_BETWEEN_REQUESTS \in 1..3
               /\ IF Last(statuses) \in {Status(403), Status(429)}
                    THEN Len(sinceGet) = 2 /\ sinceGet[1] \in 5..10
                    ELSE Len(sinceGet) = 1

C4_Witness ==
    /\ pc = "get"
    /\ attempt = 2
    /\ statuses = <<Status(500), Status(403)>>
    /\ sinceGet = <<10, 3>>

\* C5: 200 is the only outcome returned as success; 403 and 429 are retried
\* after the extended delay; every other status and every network or timeout
\* exception is retried with no extended delay; no outcome makes the call
\* raise or return before its retry budget is used.
C5_OutcomeClassification ==
    /\ pc # "raised"
    /\ result # None => (pc = "done" /\ Last(statuses) = Status(200))
    /\ (pc = "done" /\ result = None) => Len(statuses) >= max_retries
    /\ (statuses # <<>> /\ Last(statuses) # Status(200)) =>
          /\ pc = "for" =>
                IF Last(statuses) \in {Status(403), Status(429)}
                  THEN Len(sinceGet) = 1 /\ sinceGet[1] \in 5..10
                  ELSE sinceGet = <<>>
          /\ pc = "done" => Len(statuses) = attempt

C5_Witness ==
    /\ pc = "done"
    /\ result = Response(3)
    /\ statuses = <<Raises("ConnectionError"), Status(204), Status(200)>>

-----------------------------------------------------------------------------
(* Claims about the batch, checked under BatchSpec *)

\* dict.get(k, d)
FieldOr(r, k, d) == IF k \in DOMAIN r THEN r[k] ELSE d

\* The positions of urls_data[1..n] whose site has an adapter, in input order.
SupportedPositions(n) ==
    SelectSeq([k \in 1..n |-> k], LAMBDA k : urls_data[k].site \in SupportedSites)

\* An entry met by one of the failures: fetch exhausted, unparsable page, block
\* page (detected on Amazon), exception while creating or running the adapter.
EntryFails(k) ==
    \/ world[k] \in {"ctor_raises", "fetch_none", "parse_none", "extract_raises"}
    \/ world[k] = "bot_check" /\ urls_data[k].site = "amazon"

\* C6: whatever the pattern of per-URL failures, scrape_products goes through
\* every entry, and its list holds, in input order, exactly one record for each
\* entry of a supported site; the record of a failing entry has success=false
\* and a non-empty error message.
C6_FailuresIsolated ==
    /\ producedBy = SupportedPositions(i)
    /\ Len(scraped_data) = Len(producedBy)
    /\ \A k \in 1..Len(scraped_data) :
          /\ scraped_data[k].url = urls_data[producedBy[k]].url
          /\ EntryFails(producedBy[k]) =>
                (scraped_data[k].success = FALSE /\ scraped_data[k].error_message # "")
    /\ bpc = "done" => i = Len(urls_data)

C6_Witness ==
    /\ bpc = "done"
    /\ Len(urls_data) = 2
    /\ urls_data[1].site = "amazon"
    /\ world = <<"ctor_raises", "ok">>
    /\ Len(scraped_data) = 2
    /\ scraped_data[1].success = FALSE
    /\ scraped_data[2].success = TRUE

\* C7: a record with success=false holds no extracted value: title,
\* availability and description empty, rating and review_count null, price 0
\* (a field the record does not carry reads as its empty value); success=true
\* exactly when the adapter's scrape_product returned without raising, and
\* then error_message is empty.
C7_FailedRecordsEmpty ==
    \A k \in 1..Len(scraped_data) :
        LET r == scraped_data[k]
            e == urls_data[producedBy[k]]
            sc == world[producedBy[k]]
        IN  /\ r.success = FALSE =>
                  /\ FieldOr(r, "title", "") = ""
                  /\ FieldOr(r, "availability", "") = ""
                  /\ FieldOr(r, "description", "") = ""
                  /\ FieldOr(r, "rating", None) = None
                  /\ FieldOr(r, "review_count", None) = None
                  /\ FieldOr(r, "price", 0) = 0
            /\ r.success = (sc # "ctor_raises" /\ ~ScrapeProduct(e.site, sc).raised)
            /\ r.success = TRUE => r.error_message = ""

C7_Witness ==
    /\ Len(scraped_data) = 2
    /\ scraped_data[1].success = FALSE
    /\ "title" \in DOMAIN scraped_data[1]
    /\ scraped_data[1].error_message = "Requête bloquée par Amazon"
    /\ scraped_data[2].success = TRUE
    /\ scraped_data[2].title = "Produit"

-----------------------------------------------------------------------------
(* Claims on the diff *)

\* The URLs listed under one key of the returned report (none for a key the
\* report does not have).
ListedUrls(key) ==
    LET l == FieldOr(report, key, <<>>) IN {l[k].url : k \in 1..Len(l)}

\* C8: once the diff has returned, no URL present in both snapshots is listed
\* among the new or the removed products, and every URL of either snapshot is
\* in exactly one of the three groups: common (in both snapshots), new (listed
\* in new_products), removed (listed in removed_products).
C8_UrlsPartitioned ==
    dpc = "done" =>
        LET common == UrlSet(current_data) \cap UrlSet(historical_data)
            new == ListedUrls("new_products")
            removed == ListedUrls("removed_products")
        IN  /\ common \cap (new \cup removed) = {}
            /\ \A u \in UrlSet(current_data) \cup UrlSet(historical_data) :
                  Cardinality({g \in {"common", "new", "removed"} :
                                 \/ g = "common" /\ u \in common
                                 \/ g = "new" /\ u \in new
                                 \/ g = "removed" /\ u \in removed}) = 1

Abs(x) == IF x < 0 THEN -x ELSE x

\* The price the diff reads for the first row of each snapshot.
OldPrice == RowGet(historical_data, historical_data[1], "price", 0)
NewPrice == RowGet(current_data, current_data[1], "price", 0)

\* The availability the diff reads for the first row of each snapshot.
OldAvailability == RowGet(historical_data, historical_data[1], "availability", "")
NewAvailability == RowGet(current_data, current_data[1], "availability", "")

\* C9: for a URL in both snapshots with two positive prices, a price-change
\* record is reported if and only if the relative change
\* (new - old) / old * 100 is at least 5.0 in absolute value (so a change of
\* exactly 5% is reported), and the record carries the old price, the new
\* price and the signed percentage rounded to two decimals.
C9_ThresholdInclusive ==
    (/\ dpc = "done"
     /\ GreaterThanZero(OldPrice)
     /\ GreaterThanZero(NewPrice)) =>
        LET old == OldPrice.v
            new == NewPrice.v
            recs == report.price_changes
        IN  /\ (recs # <<>>) <=> (Abs(new - old) * 100 >= PRICE_CHANGE_THRESHOLD * old)
            /\ \A k \in 1..Len(recs) :
                  /\ recs[k].old_price = old
                  /\ recs[k].new_price = new
                  /\ 2 * Abs((recs[k].change_percent * old) - ((new - old) * 10000)) <= old

\* The reorderings of a snapshot.
Reorderings(s) == {[k \in 1..Len(s) |-> s[p[k]]] : p \in Orders(1..Len(s))}

\* A report with its four lists read as sets.
AsSets(r) ==
    [key \in {"price_changes", "availability_changes", "new_products", "removed_products"} |->
        LET l == FieldOr(r, key, <<>>) IN {l[k] : k \in 1..Len(l)}]

\* The diff of two snapshots, its loops going through their sets in some order.
DiffOf(cur, hist) ==
    GenerateComparisonReport(cur, hist,
        CHOOSE o \in Orders(CommonUrls(cur, hist)) : TRUE,
        CHOOSE o \in Orders(NewUrls(cur, hist)) : TRUE,
        CHOOSE o \in Orders(RemovedUrls(cur, hist)) : TRUE)

\* C10: for two snapshots with at least one row each, the current one with
\* one row per URL (the previous one may hold several rows for one URL), the
\* diff of any reordering of the current and of the previous snapshot equals,
\* list by list as sets, the report returned for the snapshots as given.
C10_OrderIndependent ==
    (/\ dpc = "done"
     /\ current_data # <<>>
     /\ historical_data # <<>>
     /\ Cardinality(UrlSet(current_data)) = Len(current_data)) =>
        \A pcur \in Reorderings(current_data), phist \in Reorderings(historical_data) :
            AsSets(DiffOf(pcur, phist)) = AsSets(report)

\* C11: price-change and availability-change detection for one URL are
\* independent: when the price moved by at least 5% and the availability
\* changed too, the report holds exactly one price-change record and exactly
\* one availability-change record for the URL; previous 100.00 in stock and
\* current 94.00 out of stock give change_percent = -6.00 and a record from
\* in stock to out of stock.
C11_PriceAndAvailabilityIndependent ==
    (/\ dpc = "done"
     /\ GreaterThanZero(OldPrice)
     /\ GreaterThanZero(NewPrice)
     /\ Abs(NewPrice.v - OldPrice.v) * 100
           >= PRICE_CHANGE_THRESHOLD * OldPrice.v
     /\ OldAvailability # NewAvailability) =>
        /\ Len(report.price_changes) = 1
        /\ report.price_changes[1].url = "X"
        /\ Len(report.availability_changes) = 1
        /\ report.availability_changes[1].url = "X"
        /\ report.availability_changes[1].old_availability = OldAvailability
        /\ report.availability_changes[1].new_availability = NewAvailability
        /\ (OldPrice.v = 10000 /\ NewPrice.v = 9400) =>
              report.price_changes[1].change_percent = -600

\* The price cells of the rows of one URL in a snapshot.
PricesOf(data, url) == {RowGet(data, data[k], "price", 0) : k \in Positions(data, url)}

\* C12: for every current and previous snapshot, an empty one included, every
\* URL that occurs only in the current snapshot is listed in new_products,
\* and every URL that occurs only in the previous snapshot is listed in
\* removed_products with a price the previous snapshot holds for it.
C12_NewAndRemovedReported ==
    dpc = "done" =>
        /\ \A u \in UrlSet(current_data) \ UrlSet(historical_data) :
              u \in ListedUrls("new_products")
        /\ \A u \in UrlSet(historical_data) \ UrlSet(current_data) :
              LET l == FieldOr(report, "removed_products", <<>>)
              IN  \E k \in 1..Len(l) :
                     l[k].url = u /\ l[k].last_price \in PricesOf(historical_data, u)

\* C13: for a URL of both snapshots whose price is zero, negative or missing
\* (NaN, or a record without a price) on either side, the diff returns a
\* report without any price-change record, and the availability comparison
\* is still made: the report holds an availability-change record for the URL
\* exactly when the two availabilities read are different values.
C13_InvalidPriceSkipped ==
    (/\ dpc = "done"
     /\ ~(GreaterThanZero(OldPrice) /\ GreaterThanZero(NewPrice))) =>
        /\ DOMAIN report = {"price_changes", "availability_changes", "new_products",
                            "removed_products", "summary"}
        /\ report.price_changes = <<>>
        /\ (report.availability_changes # <<>>) <=> (OldAvailability.v # NewAvailability.v)
        /\ \A k \in 1..Len(report.availability_changes) :
              /\ report.availability_changes[k].url = "X"
              /\ report.availability_changes[k].old_availability = OldAvailability
              /\ report.availability_changes[k].new_availability = NewAvailability

\* A failed current record (no price) against a priced previous record of
\* another availability: the availability change is reported.
C13_Witness ==
    /\ dpc = "done"
    /\ "price" \notin DOMAIN current_data[1]
    /\ GreaterThanZero(OldPrice)
    /\ report.price_changes = <<>>
    /\ Len(report.availability_changes) = 1

\* The text of an availability cell, an empty and a missing one being the
\* same absent value.
AvailabilityText(c) == IF c.nan THEN "" ELSE c.v

\* C14: for every URL of both snapshots, the report holds an
\* availability-change record for it if and only if its old and its new
\* availability differ; the same availability on both sides, empty or missing
\* on both sides included (a failed record read back from the snapshot file
\* against a failed record of the current run), gives no record.
C14_AvailabilityChangeIffDifferent ==
    (dpc = "done" /\ current_data # <<>> /\ historical_data # <<>>) =>
        \A u \in CommonUrls(current_data, historical_data) :
            LET old == RowGet(historical_data, IlocLast(historical_data, u), "availability", "")
                new == RowGet(current_data, Iloc0(current_data, u), "availability", "")
            IN  (u \in ListedUrls("availability_changes"))
                   <=> (AvailabilityText(old) # AvailabilityText(new))

\* Whether no URL occurs twice in the list under one key of the report.
NoUrlTwice(key) ==
    LET l == FieldOr(report, key, <<>>)
    IN  \A j, k \in 1..Len(l) : l[j].url = l[k].url => j = k

\* C15: in every report returned by the diff, no URL occurs twice within
\* price_changes, within availability_changes, within new_products or within
\* removed_products, also when a snapshot holds several rows for one URL, and
\* each count of the summary is the length of the list it counts.
C15_NoDuplicatesAndCounts ==
    dpc = "done" =>
        /\ NoUrlTwice("price_changes")
        /\ NoUrlTwice("availability_changes")
        /\ NoUrlTwice("new_products")
        /\ NoUrlTwice("removed_products")
        /\ "summary" \in DOMAIN report =>
              /\ report.summary.total_price_changes = Len(report.price_changes)
              /\ report.summary.total_availability_changes = Len(report.availability_changes)
              /\ report.summary.new_products_count = Len(report.new_products)
              /\ report.summary.removed_products_count = Len(report.removed_products)

\* Both snapshots hold two rows for X; one price change and one availability
\* change are reported for it.
C15_Witness ==
    /\ dpc = "done"
    /\ Len(current_data) = 2
    /\ Len(historical_data) = 2
    /\ UrlSet(current_data) = {"X"}
    /\ UrlSet(historical_data) = {"X"}
    /\ Len(report.price_changes) = 1
    /\ Len(report.availability_changes) = 1
    /\ report.summary.total_price_changes = 1

\* The record of a URL with the greatest scraped_at in a snapshot.
ChronologicallyLast(data, url) ==
    data[CHOOSE k \in Positions(data, url) :
            \A j \in Positions(data, url) : data[j].scraped_at <= data[k].scraped_at]

\* C16: when the previous snapshot holds several records of a URL of the
\* current snapshot, the diff compares against the one with the greatest
\* scraped_at, whatever its position: the price and availability changes
\* reported are those of the current record against that record alone.
C16_ComparesAgainstLatest ==
    dpc = "done" =>
        LET latest == <<ChronologicallyLast(historical_data, "X")>>
        IN  /\ report.price_changes = PriceChanges(current_data, latest, <<"X">>)
            /\ report.availability_changes
                  = AvailabilityChanges(current_data, latest, <<"X">>)

-----------------------------------------------------------------------------
(* Claims on the extraction *)

\* The strings the adapters use for the five availability classes
\* ('Disponible' standing for in stock, beside 'En stock').
AvailabilityLabels ==
    {EN_STOCK, DISPONIBLE, RUPTURE_DE_STOCK, TEMPORAIREMENT_INDISPONIBLE, ANNONCE_EXPIREE,
     DISPONIBILITE_INCONNUE}

\* C17: for every site adapter and every page text, the availability that
\* scrape_product stores is one of the fixed labels of the five classes
\* (in stock, out of stock, temporarily unavailable, expired, unknown), never
\* raw page text nor a label with page text embedded.
C17_AvailabilityIsALabel ==
    epc = "done" => product_availability \in AvailabilityLabels

\* The unavailability keywords of an adapter that classifies by keywords.
UnavailabilityKeywords(site) ==
    CASE site = "shopify" -> out_of_stock_keywords
      [] site = "amazon" -> AmazonTemporaryPhrases \cup AmazonOutOfStockPhrases
      [] site = "etsy" -> EtsyOutOfStockWords

\* The keywords of an adapter that classifies by keywords.
AdapterKeywords(site) ==
    UnavailabilityKeywords(site) \cup
       (CASE site = "shopify" -> in_stock_keywords
          [] site = "amazon" -> AmazonInStockPhrases
          [] site = "etsy" -> EtsyInStockWords)

\* The availability text of the page, in lower case.
PageAvailabilityText == Lower(ExtractText(document.availability))

\* Whether a stored availability reads as in stock.
ReadsInStock(a) == a = EN_STOCK \/ (Len(a) > Len(EN_STOCK) /\ SubSeq(a, 1, Len(EN_STOCK)) = EN_STOCK)

\* C18: in the Shopify, Amazon and Etsy adapters, a text that contains one of
\* the adapter's unavailability keywords, in any letter case, is never
\* classified in stock, whatever in-stock keyword it also contains.
C18_UnavailableBeforeInStock ==
    (/\ epc = "done"
     /\ adapter \in {"shopify", "amazon", "etsy"}
     /\ ContainsAny(PageAvailabilityText, UnavailabilityKeywords(adapter))) =>
        ~ReadsInStock(product_availability)

\* C19: in the Shopify and Etsy adapters, when the availability text matches
\* no keyword (and holds no digit), a disabled add-to-cart control gives out
\* of stock, an enabled one gives in stock, and no control gives unknown.
C19_ControlFallback ==
    (/\ epc = "done"
     /\ adapter \in {"shopify", "etsy"}
     /\ ~ContainsAny(PageAvailabilityText, AdapterKeywords(adapter))
     /\ ~HasDigit(PageAvailabilityText)) =>
        /\ document.buttons = <<>> => product_availability = DISPONIBILITE_INCONNUE
        /\ \A k \in 1..Len(document.buttons) :
              LET button == document.buttons[k]
              IN  /\ (button.has_disabled /\ button.disabled_value # <<>>) \/ button.class_disabled
                        => product_availability = RUPTURE_DE_STOCK
                  /\ (/\ ~button.has_disabled
                      /\ ~button.class_disabled
                      /\ ~ContainsAny(Lower(button.text), AdapterKeywords(adapter)))
                        => product_availability = EN_STOCK

\* Whether r is text without its leading and trailing whitespace.
IsTrimOf(r, text) ==
    /\ r # <<>> => r[1] \notin Whitespace /\ r[Len(r)] \notin Whitespace
    /\ \E a \in 0..(Len(text) - Len(r)) :
          /\ SubSeq(text, a + 1, a + Len(r)) = r
          /\ \A k \in 1..Len(text) : (k <= a \/ k > a + Len(r)) => text[k] \in Whitespace

\* The selectors of the list whose first matched element has text that is not
\* blank.
Qualifying(found) ==
    {k \in 1..Len(found) :
        found[k].match = "element" /\ \E j \in 1..Len(found[k].text) :
                                         found[k].text[j] \notin Whitespace}

\* C20: _extract_text returns the trimmed text of the first selector, in list
\* order, whose first matched element has non-empty trimmed text, and the
\* empty string when there is none; a selector that matches nothing, matches
\* a blank element or raises is passed over.
C20_SelectorCascade ==
    epc = "done" =>
        LET found == document.availability
            q == Qualifying(found)
        IN  IF q = {} THEN extracted = <<>>
            ELSE LET first == CHOOSE k \in q : \A j \in q : k <= j
                 IN  extracted # <<>> /\ IsTrimOf(extracted, found[first].text)

\* A document that matches only the second of three selectors.
C20_Witness ==
    /\ epc = "done"
    /\ document.availability = <<NoMatch, Element(<<" ", "O", "k", " ">>), NoMatch>>
    /\ extracted = <<"O", "k">>

-----------------------------------------------------------------------------
(* Claims on the normalizers *)

\* C21: _clean_price returns a number for every text, without raising:
\* '1.234,56' gives 1234.56, '1,234.56' gives 1234.56, '12,50' gives 12.5,
\* and 'abc' and the empty text give the failure value 0.
C21_PriceExamples ==
    (npc = "done" /\ callee = "_clean_price") =>
        /\ DOMAIN returned = {"neg", "num", "scale"}
        /\ argument = <<"1", ".", "2", "3", "4", ",", "5", "6">> => returned = Decimal(FALSE, 123456, 2)
        /\ argument = <<"1", ",", "2", "3", "4", ".", "5", "6">> => returned = Decimal(FALSE, 123456, 2)
        /\ argument = <<"1", "2", ",", "5", "0">> => returned = Decimal(FALSE, 1250, 2)
        /\ argument = <<"a", "b", "c">> => returned = Zero
        /\ argument = <<>> => returned = Zero

C21_Witness ==
    /\ npc = "done"
    /\ callee = "_clean_price"
    /\ argument = <<"1", ",", "2", "3", "4", ".", "5", "6">>
    /\ returned = [neg |-> FALSE, num |-> 123456, scale |-> 2]

\* The number of digits that follow position k of a text without a break.
RECURSIVE DigitsAfter(_, _)
DigitsAfter(text, k) ==
    IF k < Len(text) /\ text[k + 1] \in Digits THEN 1 + DigitsAfter(text, k + 1) ELSE 0

\* A text with only commas: each comma followed by at most 2 digits becomes
\* the decimal point, every other comma is dropped.
RECURSIVE CommasByGroup(_, _)
CommasByGroup(text, k) ==
    IF k > Len(text) THEN <<>>
    ELSE (IF text[k] # "," THEN <<text[k]>>
          ELSE IF DigitsAfter(text, k) <= 2 THEN <<".">> ELSE <<>>)
         \o CommasByGroup(text, k + 1)

\* The reference algorithm of the price normalization.
ReferencePrice(text) ==
    LET kept == SelectSeq(text, LAMBDA c : c \in Digits \cup {".", ","})
        commas == \E k \in 1..Len(kept) : kept[k] = ","
        periods == \E k \in 1..Len(kept) : kept[k] = "."
        lastComma == CHOOSE k \in 1..Len(kept) :
                        kept[k] = "," /\ \A j \in (k + 1)..Len(kept) : kept[j] # ","
        lastPeriod == CHOOSE k \in 1..Len(kept) :
                         kept[k] = "." /\ \A j \in (k + 1)..Len(kept) : kept[j] # "."
        plain ==
            IF commas /\ periods
              THEN IF lastComma > lastPeriod
                     THEN [k \in 1..Len(SelectSeq(kept, LAMBDA c : c # ".")) |->
                             IF SelectSeq(kept, LAMBDA c : c # ".")[k] = ","
                               THEN "." ELSE SelectSeq(kept, LAMBDA c : c # ".")[k]]
                     ELSE SelectSeq(kept, LAMBDA c : c # ",")
            ELSE IF commas THEN CommasByGroup(kept, 1)
            ELSE kept
        value == ParseFloat(plain)
    IN  IF value = ValueError THEN Zero ELSE value

\* C22: for every text, _clean_price equals the reference algorithm: keep
\* digits, comma and period; with both separators the later one is the
\* decimal separator and the other is removed; with commas only, a comma
\* followed by at most 2 digits is the decimal separator and any other comma
\* is removed as a thousands separator ('1,234,56' is 1234.56); parse, 0 on
\* failure.
C22_MatchesReference ==
    (npc = "done" /\ callee = "_clean_price") => returned = ReferencePrice(argument)

\* C23: no text, one with a minus sign included, makes _clean_price or the
\* price extraction of an adapter return a negative price.
C23_PriceNotNegative ==
    npc = "done" => ~returned.neg

C23_Witness ==
    /\ npc = "done"
    /\ callee = "_clean_price"
    /\ argument = <<"-", "1", "2", ",", "5", "0">>
    /\ returned = [neg |-> FALSE, num |-> 125, scale |-> 1]

-----------------------------------------------------------------------------
(* Claims on the Amazon bot-check, checked under BatchSpec *)

\* Pages served with status 200 that hold one of the bot-check phrases, in the
\* case of the source or in another.
BotCheckPages ==
    {<<"A", "m", "a", "z", "o", "n", ".", "f", "r", " ", "R", "O", "B", "O", "T", " ", "C", "H", "E", "C", "K", " ", "S", "a", "i", "s", "i", "s", "s", "e", "z", " ", "l", "e", "s", " ", "c", "a", "r", "a", "c", "t", "è", "r", "e", "s">>,
     <<"R", "o", "b", "o", "t", " ", "C", "h", "e", "c", "k">>,
     <<"T", "o", " ", "d", "i", "s", "c", "u", "s", "s", " ", "a", "u", "t", "o", "m", "a", "t", "e", "d", " ", "a", "c", "c", "e", "s", "s", " ", "t", "o", " ", "A", "m", "a", "z", "o", "n", " ", "d", "a", "t", "a", " ", "p", "l", "e", "a", "s", "e", " ", "c", "o", "n", "t", "a", "c", "t", " ", "A", "P", "I", "-", "S", "E", "R", "V", "I", "C", "E", "S", "-", "S", "U", "P", "P", "O", "R", "T", "@", "A", "M", "A", "Z", "O", "N", ".", "C", "O", "M">>,
     <<"e", "n", "t", "e", "r", " ", "t", "h", "e", " ", "c", "h", "a", "r", "a", "c", "t", "e", "r", "s", " ", "y", "o", "u", " ", "s", "e", "e", " ", "b", "e", "l", "o", "w">>,
     <<"S", "o", "r", "r", "y", ",", " ", "w", "e", " ", "j", "u", "s", "t", " ", "n", "e", "e", "d", " ", "t", "o", " ", "m", "a", "k", "e", " ", "s", "u", "r", "e", " ", "y", "o", "u", "'", "r", "e", " ", "n", "o", "t", " ", "a", " ", "r", "o", "b", "o", "t", ".", " ", "F", "o", "r", " ", "b", "e", "s", "t", " ", "r", "e", "s", "u", "l", "t", "s">>}

\* C24: for an Amazon URL whose page is served with status 200 and holds one
\* of the bot-check phrases, in any case, the record has success=false, a
\* non-empty error message and none of the extracted fields (title, price,
\* availability, rating, review count, description).
C24_BotCheckFails ==
    /\ \A page_text \in BotCheckPages : is_blocked(page_text)
    /\ \A k \in 1..Len(scraped_data) :
          LET r == scraped_data[k]
              e == urls_data[producedBy[k]]
          IN  e.site = "amazon" /\ world[producedBy[k]] = "bot_check" =>
                  /\ r.success = FALSE
                  /\ r.error_message # ""
                  /\ r.title = "" /\ r.price = 0 /\ r.availability = ""
                  /\ r.rating = None /\ r.review_count = None
                  /\ r.description = ""

\* The bot-check page was served for an Amazon entry and its record is stored.
C24_Witness ==
    /\ bpc = "done"
    /\ \E k \in 1..Len(scraped_data) :
          /\ urls_data[producedBy[k]].site = "amazon"
          /\ world[producedBy[k]] = "bot_check"
          /\ BotCheckPageText \in BotCheckPages
          /\ scraped_data[k].error_message = "Requête bloquée par Amazon"

-----------------------------------------------------------------------------
(* Claims on the description, checked under DescriptionSpec *)

\* The first element, in selector order, whose text is not empty; 0 if none.
FirstDescribed(elements) ==
    LET S == {k \in 1..Len(elements) :
                 elements[k] # NoMatch /\ ElementDescription(elements[k]) # <<>>}
    IN  IF S = {} THEN 0 ELSE CHOOSE k \in S : \A j \in S : k <= j

\* C25: for each of the six adapters the description stored has at most 500
\* characters; an Amazon description taken from a list is the texts of at most
\* the first 5 items joined by ' | ', cut to 500 characters.
C25_DescriptionBounded ==
    npc = "done" =>
        /\ Len(returned) <= 500
        /\ callee \in DescriptionAdapters =>
              \A k \in 1..Len(returned) : returned[k] = argument[k]
        /\ callee = "amazon" /\ FirstDescribed(argument) # 0 =>
              LET element == argument[FirstDescribed(argument)]
              IN  element.name = "ul" =>
                    LET n == IF Len(element.items) < 5 THEN Len(element.items) ELSE 5
                        joined == Join(<<" ", "|", " ">>, [k \in 1..n |-> element.items[k]])
                    IN  /\ Len(returned) = IF Len(joined) < 500 THEN Len(joined) ELSE 500
                        /\ \A k \in 1..Len(returned) : returned[k] = joined[k]

\* A list of six long items: five are joined (612 characters) and cut to 500.
C25_Witness ==
    /\ npc = "done"
    /\ callee = "amazon"
    /\ Len(argument) = 1
    /\ argument[1] # NoMatch
    /\ argument[1].name = "ul"
    /\ Len(argument[1].items) = 6
    /\ \A k \in 1..6 : Len(argument[1].items[k]) = 120
    /\ Len(returned) = 500
    /\ returned[121] = " " /\ returned[122] = "|"

-----------------------------------------------------------------------------
(* Claims on the ratings, checked under RatingSpec *)

\* C26: the rating an extractor returns is null or a number in [0, 5], and
\* its review count is null or a non-negative integer, whatever numbers the
\* candidate elements hold (_extract_rating and the review extractors of the
\* Amazon, Etsy and Fiverr adapters).
C26_RatingInRange ==
    npc = "done" =>
        /\ \/ returned.rating = None
           \/ ~returned.rating.neg /\ AtMost(returned.rating, 5)
        /\ \/ returned.review_count = None
           \/ returned.review_count.v >= 0

-----------------------------------------------------------------------------
(* Claims on the runs, checked under RunSpec *)

\* The snapshots persisted by the runs before the current one.
EarlierSnapshots == {f \in DOMAIN data_dir : f < run}

\* C27: over any sequence of runs whose snapshot is persisted or not, the
\* snapshot handed to the comparison in a run is the one persisted by the most
\* recent earlier run, never the one of the run itself nor an older one; a run
\* with no earlier persisted snapshot compares nothing.
C27_ComparesWithLatestEarlier ==
    rpc = "checked" =>
        /\ compared_file # 0 =>
              /\ compared_file \in EarlierSnapshots
              /\ \A f \in EarlierSnapshots : f <= compared_file
        /\ EarlierSnapshots = {} => compared_file = 0

\* The alerts of one kind handed to the notifier in the run.
AlertsNamed(name) == SelectSeq(alerts, LAMBDA a : a.alert = name)

\* Whether the comparison of the run was performed and gave a report.
Compared == compared_file # 0 /\ DOMAIN comparison_report # {}

\* C28: a price-change alert is handed to the notifier exactly when the
\* comparison was performed and its price changes are not empty, an
\* availability alert exactly when its availability changes are not empty,
\* each whatever the other list holds, and each carries its list as it is.
C28_AlertsFollowTheLists ==
    /\ Len(AlertsNamed("send_price_change_alert")) <= 1
    /\ Len(AlertsNamed("send_availability_alert")) <= 1
    /\ Len(alerts) = Len(AlertsNamed("send_price_change_alert"))
                       + Len(AlertsNamed("send_availability_alert"))
    /\ AlertsNamed("send_price_change_alert") # <<>> <=>
          rpc = "checked" /\ Compared /\ comparison_report.price_changes # <<>>
    /\ AlertsNamed("send_availability_alert") # <<>> <=>
          rpc = "checked" /\ Compared /\ comparison_report.availability_changes # <<>>
    /\ \A k \in 1..Len(alerts) :
          alerts[k].changes =
              IF alerts[k].alert = "send_price_change_alert"
                THEN comparison_report.price_changes
                ELSE comparison_report.availability_changes

\* The product went out of stock at the same price: the availability alert is
\* sent alone.
C28_Witness ==
    /\ rpc = "checked"
    /\ Compared
    /\ comparison_report.price_changes = <<>>
    /\ Len(alerts) = 1
    /\ alerts[1].alert = "send_availability_alert"
    /\ Len(alerts[1].changes) = 1

\* C29: whenever generate_csv_report has written the CSV file of a non-empty
\* list of records it returns the path of that file, which generate_reports
\* stores under 'csv'; it returns the empty string only when no file was
\* written.
C29_WrittenReportIsReturned ==
    rpc \in {"reported", "checked"} =>
        /\ run \in reports_dir =>
              /\ "csv" \in DOMAIN reports_generated
              /\ reports_generated["csv"] = <<"competitive_report", run>>
        /\ "csv" \notin DOMAIN reports_generated => run \notin reports_dir

-----------------------------------------------------------------------------
(* Claim on the waits of the fetch, checked under Spec *)

\* C30: every wait made inside one call of _make_request is followed by a
\* further attempt of that call: when the call ends, no wait has been made
\* since its last attempt.
C30_NoWaitAfterLastAttempt ==
    pc \in {"done", "raised"} => sinceGet = <<>>

=============================================================================
